---------------------------- MODULE Spec2Model ----------------------------
(***************************************************************************)
(* CharmingEPG: the daily file cache of per-platform XMLTV documents, the  *)
(* update cycle that fills it (app/main.py), and the merge engine that     *)
(* combines the cached documents (app/file_manager.py).                    *)
(*                                                                         *)
(* A stored document is modelled by the list of the children of its root   *)
(* element.  An element is a record                                        *)
(*     [tag, ch, title, src]                                               *)
(* where tag is "channel" or "programme", ch is the id attribute of a      *)
(* channel or the channel attribute of a programme, title is the title of  *)
(* a programme (a number; 0 in a channel element), and src names the       *)
(* platform whose adapter produced the                                     *)
(* element (the identity of the element: the merge copies elements, it     *)
(* never builds new ones).                                                 *)
(***************************************************************************)
EXTENDS Naturals, Sequences, FiniteSets, TLC

VARIABLES
    day,        \* the calendar day datetime.now() falls in
    files,      \* files[name][d]: content of {base}/{name}/{name}_{d}.xml
    resp,       \* the answer to the latest HTTP request
    pc,         \* pc[c]: where update cycle c stands
    idx,        \* position in the task list of the next fetch task to run
    lastRun,    \* what the fetch task that ran last in the update in
                \* progress met and did
    enabled,    \* the platforms whose EPG_ENABLE_<NAME> is true
    call        \* a call of a function of an adapter, of utils.py or of the
                \* serializer: its name, its argument and its result

vars == <<day, files, resp, pc, idx, lastRun, enabled, call>>

-----------------------------------------------------------------------------
(* Bounds *)

MaxDay == 1         \* days are 0..MaxDay
MaxElems == 4       \* elements in the documents of the store, all together
MaxList == 2        \* platform names in the ?platforms= list
MaxRecords == 3     \* records in one upstream program list
MaxDelta == 2       \* days ahead of today in an Astro query
MaxLen == 4         \* characters in a channel name
MaxRetries == 3     \* the largest HTTP_MAX_RETRIES tried

Days == 0..MaxDay

-----------------------------------------------------------------------------
(* Configuration: app/config.py *)

EPG_PLATFORMS == <<"cn", "tvb", "nowtv", "hami", "astro", "rthk", "hoy", "starhub">>

PlatformNames == {EPG_PLATFORMS[i] : i \in 1..Len(EPG_PLATFORMS)}

\* directory names under EPG_BASE_DIR: the platforms and the merged cache
FileNames == PlatformNames \cup {"all"}

-----------------------------------------------------------------------------
(* File contents *)

\* An id with an apostrophe in it; "" is an empty (or absent) id attribute.
ApostropheId == "K's"
ChanIds == {"", "A", "B", ApostropheId}

NoFile == [kind |-> "none", root |-> <<>>]         \* no file at the path
EmptyFile == [kind |-> "empty", root |-> <<>>]     \* a file of zero bytes
Garbage == [kind |-> "garbage", root |-> <<>>]     \* bytes that are not well-formed XML
Xml(root) == [kind |-> "xml", root |-> root]

ChannelElem(id, src) == [tag |-> "channel", ch |-> id, title |-> 0, src |-> src]
ProgrammeElem(id, title, src) == [tag |-> "programme", ch |-> id, title |-> title, src |-> src]

SeqsUpTo(S, n) == UNION {[1..k -> S] : k \in 0..n}

\* root.findall("./channel"), root.findall("./programme")
FindAllTag(root, tag) == SelectSeq(root, LAMBDA e : e.tag = tag)

\* find() in the place of findall(): the first programme of the channel only
FindFirstProgramme(root, channel_id) ==
    LET all == SelectSeq(root, LAMBDA e : e.tag = "programme" /\ e.ch = channel_id)
    IN  IF all = <<>> THEN <<>> ELSE <<Head(all)>>

\* root.findall(f"./programme[@channel='{channel_id}']") for an id the
\* path expression can hold
FindAllProgramme(root, channel_id) ==
    SelectSeq(root, LAMBDA e : e.tag = "programme" /\ e.ch = channel_id)

\* The id is pasted between single quotes into the path expression; an id
\* holding a single quote makes ElementPath raise SyntaxError("invalid
\* predicate"), which is no ET.ParseError.
InvalidPredicate(channel_id) == channel_id = ApostropheId


-----------------------------------------------------------------------------
(* File store: app/file_manager.py *)

\* EPGFileManager.read_epg_file: the bytes at the path of (platform, d),
\* None (NoFile) when the path does not exist
ReadEpgFile(fs, platform, d) == fs[platform][d]

\* How a save_epg_file call ends: the content is written; makedirs or
\* open() raises and the path is as before; or write() raises after open()
\* has truncated the path, which then holds no byte or a prefix of the
\* document.
DiskOutcomes == {"ok", "not_opened", "no_byte", "prefix"}

\* the return value of save_epg_file
SaveReturns(disk) == disk = "ok"

\* EPGFileManager.save_epg_file: the store after a save to (platform, d)
SaveEpgFile(fs, platform, content, d, disk) ==
    IF disk = "not_opened"
    THEN fs
    ELSE [fs EXCEPT ![platform][d] =
             IF disk = "ok" THEN content
             ELSE IF disk = "no_byte" THEN EmptyFile
             ELSE Garbage]

\* EPGFileManager.delete_old_epg_files called on day d: every .xml file of
\* the platform's directory but the one of day d is removed
DeleteOldEpgFiles(fs, platform, d) ==
    [fs EXCEPT ![platform] = [x \in DOMAIN @ |-> IF x = d THEN @[x] ELSE NoFile]]

\* `if not content`: None and b"" are both falsy
NotContent(content) == content.kind \in {"none", "empty"}

\* ET.fromstring(content) raises ET.ParseError
ParseError(content) == content.kind = "garbage"

-----------------------------------------------------------------------------
(* Merge engine: EPGFileManager.aggregate_epg_files *)

EmptyMerge ==
    [merged |-> <<>>, channels_seen |-> {}, total_channels |-> 0,
     total_programs |-> 0, raised |-> FALSE]

\* the test of channels_seen left out
KeepChannelUnseenOrNot(channel_id, channels_seen) == channel_id # ""

\* `if channel_id and channel_id not in channels_seen`
KeepChannel(channel_id, channels_seen) ==
    channel_id # "" /\ channel_id \notin channels_seen

\* the body of the channel loop for one kept channel: the channel element,
\* then every programme of the same document that names the channel
AppendChannel(acc, channel, platform_root) ==
    LET programmes == FindAllProgramme(platform_root, channel.ch)
    IN  [merged |-> (acc.merged \o <<channel>>) \o programmes,
         channels_seen |-> acc.channels_seen \cup {channel.ch},
         total_channels |-> acc.total_channels + 1,
         total_programs |-> acc.total_programs + Len(programmes),
         raised |-> FALSE]

RECURSIVE MergeChannels(_, _, _)
MergeChannels(channels, platform_root, acc) ==
    IF channels = <<>> \/ acc.raised
    THEN acc
    ELSE LET channel == Head(channels)
         IN  IF KeepChannel(channel.ch, acc.channels_seen)
             THEN IF InvalidPredicate(channel.ch)
                  THEN [acc EXCEPT !.raised = TRUE]
                  ELSE MergeChannels(Tail(channels), platform_root,
                                     AppendChannel(acc, channel, platform_root))
             ELSE MergeChannels(Tail(channels), platform_root, acc)

\* a document that is not well-formed ends the request with an error
MergePlatformParseErrorRaised(acc, content) ==
    IF NotContent(content)
    THEN acc
    ELSE IF ParseError(content)
         THEN [acc EXCEPT !.raised = TRUE]
         ELSE MergeChannels(FindAllTag(content.root, "channel"), content.root, acc)

\* one round of `for platform in platforms`
MergePlatform(acc, content) ==
    IF NotContent(content)
    THEN acc                                    \* warning, continue
    ELSE IF ParseError(content)
         THEN acc                               \* except ET.ParseError: continue
         ELSE MergeChannels(FindAllTag(content.root, "channel"), content.root, acc)

\* the list walked from its end: the platform listed last wins
RECURSIVE MergePlatformsLastFirst(_, _, _, _)
MergePlatformsLastFirst(platforms, fs, d, acc) ==
    IF platforms = <<>> \/ acc.raised
    THEN acc
    ELSE MergePlatformsLastFirst(SubSeq(platforms, 1, Len(platforms) - 1), fs, d,
                                 MergePlatform(acc, ReadEpgFile(fs, platforms[Len(platforms)], d)))

RECURSIVE MergePlatforms(_, _, _, _)
MergePlatforms(platforms, fs, d, acc) ==
    IF platforms = <<>> \/ acc.raised
    THEN acc
    ELSE MergePlatforms(Tail(platforms), fs, d,
                        MergePlatform(acc, ReadEpgFile(fs, Head(platforms), d)))

\* The answer of aggregate_epg_files: 200 with the merged document, 404
\* (HTTPException) when total_channels is 0, 500 when an exception that is
\* not handled leaves the function.
AggregateEpgFiles(platforms, fs, d) ==
    LET acc == MergePlatforms(platforms, fs, d, EmptyMerge)
    IN  IF acc.raised
        THEN [status |-> 500, body |-> NoFile, total_channels |-> 0, total_programs |-> 0]
        ELSE IF acc.total_channels = 0
             THEN [status |-> 404, body |-> NoFile, total_channels |-> 0, total_programs |-> 0]
             ELSE [status |-> 200, body |-> Xml(acc.merged),
                   total_channels |-> acc.total_channels,
                   total_programs |-> acc.total_programs]

\* no function call is being looked at
NoCall == [fn |-> "none"]

NoResponse ==
    [op |-> "none", platforms |-> <<>>, status |-> 0, body |-> NoFile,
     total_channels |-> 0, total_programs |-> 0]

Response(op, platforms, r) ==
    [op |-> op, platforms |-> platforms, status |-> r.status, body |-> r.body,
     total_channels |-> r.total_channels, total_programs |-> r.total_programs]

\* The event loop runs one callback at a time.  No adapter awaits anything
\* that suspends (HTTPClient.get is requests.get), so the fetch tasks that
\* asyncio.gather queued run one after the other with nothing in between;
\* and a handler has returned its response before the next callback runs.
LoopFree == (\A c \in DOMAIN pc : pc[c] # "fetch") /\ resp.op = "none"

\* GET /epg?platforms=a,b,c
GetCustomAggregateEpg(platform_list) ==
    /\ LoopFree
    /\ resp' = Response("aggregate", platform_list,
                        AggregateEpgFiles(platform_list, files, day))
    /\ UNCHANGED <<day, files, pc, idx, lastRun, enabled, call>>

\* the response goes out; the next callback finds no request in progress
SendResponse ==
    /\ resp.op # "none"
    /\ resp' = NoResponse
    /\ UNCHANGED <<day, files, pc, idx, lastRun, enabled, call>>

-----------------------------------------------------------------------------
(* Adapter output and serializer: epg_platform/*.py, epg/EpgGenerator.py *)

\* base.Channel and base.Program, as far as the documents depend on them
Channel(channel_id, name) == [channel_id |-> channel_id, name |-> name]
Program(channel_id, title) == [channel_id |-> channel_id, title |-> title]

\* next((ch.name for ch in channels if ch.channel_id == program.channel_id), "")
RECURSIVE ChannelNameOf(_, _)
ChannelNameOf(channels, channel_id) ==
    IF channels = <<>>
    THEN ""
    ELSE IF Head(channels).channel_id = channel_id
         THEN Head(channels).name
         ELSE ChannelNameOf(Tail(channels), channel_id)

\* the legacy wrappers (get_channels, get_starhub_epg, ...): the lists of
\* dicts handed to gen_channel
RawChannels(channels) == [i \in 1..Len(channels) |-> [channelName |-> channels[i].name]]
RawPrograms(channels, programs) ==
    [i \in 1..Len(programs) |->
        [channelName |-> ChannelNameOf(channels, programs[i].channel_id),
         programName |-> programs[i].title]]

\* generateEpg: one <channel id=channelName> per channel, then one
\* <programme channel=channelName> per program, both in input order
GenerateEpg(raw_channels, raw_programs, src) ==
    Xml([i \in 1..Len(raw_channels) |-> ChannelElem(raw_channels[i].channelName, src)]
        \o [i \in 1..Len(raw_programs) |->
               ProgrammeElem(raw_programs[i].channelName, raw_programs[i].programName, src)])

\* what a (channels, programs) fetcher of main.py stores for the lists an
\* adapter returned
GenChannel(channels, programs, src) ==
    GenerateEpg(RawChannels(channels), RawPrograms(channels, programs), src)

-----------------------------------------------------------------------------
(* What the upstream of a platform answers in one fetch *)

TokenFailures == {"no_location", "no_access_token", "request_error"}

\* token: how the OAuth handshake of Astro ended ("none": the platform has
\* no handshake); raised: the channel request (for cn: the one request)
\* failed after its retries; channels, programs: what the adapter made of
\* the answers
Upstream(token, raised, channels, programs) ==
    [token |-> token, raised |-> raised, channels |-> channels, programs |-> programs]

NoUpstream == Upstream("none", FALSE, <<>>, <<>>)

UpstreamLists ==
    {<< <<>>, <<>> >>,
     << <<Channel("1", "A")>>, <<>> >>,
     << <<Channel("1", "A")>>, <<Program("1", 1)>> >>}

Upstreams(platform) ==
    LET token == IF platform = "astro" THEN "ok" ELSE "none"
    IN  {Upstream(token, TRUE, <<>>, <<>>)}
        \cup {Upstream(token, FALSE, l[1], l[2]) : l \in UpstreamLists}
        \cup (IF platform = "astro"
              THEN {Upstream(t, FALSE, <<>>, <<>>) : t \in TokenFailures}
              ELSE {})

-----------------------------------------------------------------------------
(* The legacy fetch functions main.py calls: what they request and return *)

\* MyTvSuper.get_channels; Hami.request_all_epg, get_hoy_epg, get_rthk_epg
\* and get_starhub_epg have the same body.  fetch_programs asks once per
\* channel, so it asks nothing for an empty list; any exception gives [], [].
GetChannels(up) ==
    IF up.raised
    THEN [requests |-> {"channels"}, raw_channels |-> <<>>, raw_programs |-> <<>>]
    ELSE [requests |-> {"channels"} \cup (IF up.channels # <<>> THEN {"programs"} ELSE {}),
          raw_channels |-> RawChannels(up.channels),
          raw_programs |-> RawPrograms(up.channels, up.programs)]

\* the token test of fetch_channels left out: the channel request goes out
\* without a token
GetAstroEpgNoTokenTest(up) ==
    IF up.raised
    THEN [requests |-> {"oauth", "channels"}, raw_channels |-> <<>>, raw_programs |-> <<>>]
    ELSE [requests |-> {"oauth", "channels"} \cup (IF up.channels # <<>> THEN {"grid"} ELSE {}),
          raw_channels |-> RawChannels(up.channels),
          raw_programs |-> RawPrograms(up.channels, up.programs)]

\* get_astro_epg: fetch_channels raises when _get_access_token returns
\* False, before the channel request; fetch_programs returns [] for no
\* channels before any grid query
GetAstroEpg(up) ==
    IF up.token # "ok"
    THEN [requests |-> {"oauth"}, raw_channels |-> <<>>, raw_programs |-> <<>>]
    ELSE IF up.raised
         THEN [requests |-> {"oauth", "channels"}, raw_channels |-> <<>>, raw_programs |-> <<>>]
         ELSE [requests |-> {"oauth", "channels"}
                               \cup (IF up.channels # <<>> THEN {"grid"} ELSE {}),
               raw_channels |-> RawChannels(up.channels),
               raw_programs |-> RawPrograms(up.channels, up.programs)]

\* NowTVPlatform.fetch_channels builds Channel(channel_id=channel_no,
\* name=name, channel_no=..., logo=..., raw_data={...}): these keyword
\* arguments are the channel's extra_data
NowTvExtraData(channel) ==
    [channel_no |-> channel.channel_id, logo |-> "", raw_data |-> channel.channel_id]

\* dict.get(key); None is modelled by ""
DictGet(d, key) == IF key \in DOMAIN d THEN d[key] ELSE ""

\* [ch.extra_data.get('channelNo') for ch in channels if ch.extra_data.get('channelNo')]
NowTvChannelNumbers(channels) ==
    LET with == SelectSeq(channels, LAMBDA ch : DictGet(NowTvExtraData(ch), "channelNo") # "")
    IN  [i \in 1..Len(with) |-> DictGet(NowTvExtraData(with[i]), "channelNo")]

\* NowTVPlatform._find_channel_name
RECURSIVE FindChannelName(_, _)
FindChannelName(channels, channel_no) ==
    IF channels = <<>>
    THEN "Channel"                              \* f"Channel {channel_no}"
    ELSE IF DictGet(NowTvExtraData(Head(channels)), "channelNo") = channel_no
         THEN Head(channels).name
         ELSE FindChannelName(Tail(channels), channel_no)

\* NowTVPlatform.generate_epg_xml_direct: a <channel> per channel number,
\* then the programmes of the channels that have a number
NowTvXmlDirect(channel_numbers, channels, programs) ==
    LET numbers == {channel_numbers[i] : i \in 1..Len(channel_numbers)}
        listed == SelectSeq(programs, LAMBDA p : p.channel_id \in numbers)
    IN  Xml([i \in 1..Len(channel_numbers) |->
                ChannelElem(FindChannelName(channels, channel_numbers[i]), "nowtv")]
            \o [i \in 1..Len(listed) |->
                   ProgrammeElem(FindChannelName(channels, listed[i].channel_id),
                                 listed[i].title, "nowtv")])

\* request_nowtv_today_epg: b"" on an exception
RequestNowtvTodayEpg(up) ==
    IF up.raised
    THEN [requests |-> {"channels"}, xml |-> EmptyFile]
    ELSE [requests |-> {"channels", "epglist"},
          xml |-> NowTvXmlDirect(NowTvChannelNumbers(up.channels), up.channels, up.programs)]

\* CNEpgPlatform.get_raw_xml: the upstream document, parsed and serialised
\* again
GetRawXml(up) ==
    Xml([i \in 1..Len(up.channels) |-> ChannelElem(up.channels[i].name, "cn")]
        \o [i \in 1..Len(up.programs) |->
               ProgrammeElem(ChannelNameOf(up.channels, up.programs[i].channel_id),
                             up.programs[i].title, "cn")])

\* get_cn_channels_epg: "" on an exception
GetCnChannelsEpg(up) ==
    IF up.raised
    THEN [requests |-> {"epg"}, xml |-> EmptyFile]
    ELSE [requests |-> {"epg"}, xml |-> GetRawXml(up)]

-----------------------------------------------------------------------------
(* The platform fetchers of main.py *)

\* Config.platform_enabled: the flag of the environment, read at each call
PlatformEnabled(platform) == platform \in enabled

\* Config.get_enabled_platforms: the entries of EPG_PLATFORMS whose flag is
\* true, in the order of the list
GetEnabledPlatforms == SelectSeq(EPG_PLATFORMS, PlatformEnabled)
EnabledNames == {GetEnabledPlatforms[i] : i \in 1..Len(GetEnabledPlatforms)}

\* what a fetch task met and did: its platform, the outcome ("hit":
\* today's file was there; "nodata": the fetch gave nothing to store;
\* "saved" / "save_failed": how save_epg_file returned), the requests it
\* sent, what the upstream answered, how the disk behaved, the day of the
\* path it saved to and the day delete_old_epg_files kept
Run(platform, outcome, requests, up, disk, at, kept) ==
    [platform |-> platform, outcome |-> outcome, requests |-> requests, up |-> up,
     disk |-> disk, at |-> at, kept |-> kept]

NoRun == Run("none", "none", {}, NoUpstream, "none", 0, 0)

\* the clock read again later: the same day or the next
Later(d) == {x \in Days : x = d \/ x = d + 1}

\* the fetcher of a platform up to its save: the requests sent and the
\* bytes to save (NoFile: nothing, the fetcher returns)
ToSave(platform, up) ==
    IF platform \in {"cn", "nowtv"}
    THEN LET got == IF platform = "cn" THEN GetCnChannelsEpg(up) ELSE RequestNowtvTodayEpg(up)
         IN  [requests |-> got.requests,
              content |-> IF NotContent(got.xml) THEN NoFile ELSE got.xml]  \* if not response_xml
    ELSE LET got == IF platform = "astro" THEN GetAstroEpg(up) ELSE GetChannels(up)
         IN  [requests |-> got.requests,
              content |-> IF got.raw_channels = <<>>                       \* if not channels
                          THEN NoFile
                          ELSE GenerateEpg(got.raw_channels, got.raw_programs, platform)]

\* the test of today's file left out: the fetcher always fetches
CacheHitNever(fs, platform, d) == FALSE

\* `if EPGFileManager.read_epg_file(platform) is not None`
CacheHit(fs, platform, d) == ReadEpgFile(fs, platform, d) # NoFile

\* request_my_tv_super_epg, request_hami_epg, request_cn_epg,
\* request_astro_epg, request_rthk_epg, request_hoy_epg,
\* request_now_tv_epg, request_starhub_epg: one run of the fetcher of
\* `platform`, started on day d1 with store fs.  The clock reads d2 when
\* save_epg_file builds its path and d3 when delete_old_epg_files builds
\* the name it keeps.  The result is the store and the day after the run,
\* and the record of the run.
RequestEpg(platform, fs, d1, up, disk, d2, d3) ==
    IF CacheHit(fs, platform, d1)
    THEN [files |-> fs, day |-> d1, run |-> Run(platform, "hit", {}, NoUpstream, "none", d1, d1)]
    ELSE LET got == ToSave(platform, up)
         IN  IF got.content = NoFile
             THEN [files |-> fs, day |-> d2,
                   run |-> Run(platform, "nodata", got.requests, up, "none", d2, d2)]
             ELSE LET saved == SaveEpgFile(fs, platform, got.content, d2, disk)
                  IN  IF SaveReturns(disk)
                      THEN [files |-> DeleteOldEpgFiles(saved, platform, d3), day |-> d3,
                            run |-> Run(platform, "saved", got.requests, up, disk, d2, d3)]
                      ELSE [files |-> saved, day |-> d2,
                            run |-> Run(platform, "save_failed", got.requests, up, disk, d2, d2)]

-----------------------------------------------------------------------------
(* The update cycle: update_all_enabled_platforms *)

\* the update started by startup() and the job of the interval scheduler
Cycles == {"startup", "scheduled"}

\* a task that fetched nothing ends the gather: the tasks after it never run
NextTaskStopAtFailure(i, outcome) ==
    IF outcome \in {"nodata", "save_failed"} THEN Len(GetEnabledPlatforms) + 1 ELSE i + 1

\* asyncio.gather(*tasks, return_exceptions=True): the task after task i
\* runs whatever task i did
NextTask(i, outcome) == i + 1

\* update_all_enabled_platforms up to its await of gather.  The job of the
\* scheduler fires an interval after startup() has queued the first update.
\* An update that starts while another waits to resume after its gather
\* queues its tasks behind that resumption, so the earlier update finishes
\* before a task of the later one runs.
StartCycle(c) ==
    /\ resp.op = "none"
    /\ \A k \in Cycles : pc[k] \in {"idle", "done"}
    /\ c = "startup" => pc[c] = "idle"
    /\ c = "scheduled" => pc["startup"] # "idle"
    /\ GetEnabledPlatforms # <<>>
    /\ pc' = [pc EXCEPT ![c] = "fetch"]
    /\ idx' = 1
    /\ lastRun' = NoRun
    /\ UNCHANGED <<day, files, resp, enabled, call>>

\* one task of the gather, from its first line to its return
RunTask(c) ==
    /\ pc[c] = "fetch"
    /\ LET platform == GetEnabledPlatforms[idx]
       IN  \E up \in Upstreams(platform), disk \in DiskOutcomes :
              \E d2 \in Later(day) :
                 \E d3 \in Later(d2) :
                    LET done == RequestEpg(platform, files, day, up, disk, d2, d3)
                        next == NextTask(idx, done.run.outcome)
                    IN  /\ files' = done.files
                        /\ day' = done.day
                        /\ lastRun' = done.run
                        /\ IF next > Len(GetEnabledPlatforms)
                           THEN idx' = 0 /\ pc' = [pc EXCEPT ![c] = "gathered"]
                           ELSE idx' = next /\ pc' = pc
    /\ UNCHANGED <<resp, enabled, call>>

\* generate_all_platforms_cache: the merge loop of aggregate_epg_files over
\* the enabled platforms; an exception of the loop is caught and logged;
\* nothing is saved when no channel was kept.  (The .xml.gz written next to
\* the file is a path of its own that only GET /all.gz reads.)
GenerateAllPlatformsCache(fs, d, disk) ==
    LET acc == MergePlatforms(GetEnabledPlatforms, fs, d, EmptyMerge)
    IN  IF acc.raised \/ acc.total_channels = 0
        THEN fs
        ELSE SaveEpgFile(fs, "all", Xml(acc.merged), d, disk)

\* update_all_enabled_platforms after the gather: the merged cache is
\* generated when today's file of "all" is missing
FinishCycle(c) ==
    /\ pc[c] = "gathered"
    /\ resp.op = "none"
    /\ \E disk \in DiskOutcomes :
          files' = IF ReadEpgFile(files, "all", day) # NoFile
                   THEN files
                   ELSE GenerateAllPlatformsCache(files, day, disk)
    /\ pc' = [pc EXCEPT ![c] = "done"]
    /\ lastRun' = NoRun
    /\ UNCHANGED <<day, resp, idx, enabled, call>>

\* midnight
Tick ==
    /\ resp.op = "none"
    /\ day < MaxDay
    /\ day' = day + 1
    /\ UNCHANGED <<files, resp, pc, idx, lastRun, enabled, call>>

-----------------------------------------------------------------------------
(* Serving one platform: EPGFileManager.get_single_platform_epg *)

\* bytes that do not parse are answered with 404 as a missing file is
GetSinglePlatformEpgParsedOnly(platform, fs, d) ==
    LET content == ReadEpgFile(fs, platform, d)
    IN  IF content.kind # "xml"
        THEN [status |-> 404, body |-> NoFile, total_channels |-> 0, total_programs |-> 0]
        ELSE [status |-> 200, body |-> content,
              total_channels |-> Len(FindAllTag(content.root, "channel")),
              total_programs |-> Len(FindAllTag(content.root, "programme"))]

\* 404 when today's file is missing; the stored bytes as they are otherwise,
\* with the element counts in the headers when the bytes parse
GetSinglePlatformEpg(platform, fs, d) ==
    LET content == ReadEpgFile(fs, platform, d)
    IN  IF content = NoFile
        THEN [status |-> 404, body |-> NoFile, total_channels |-> 0, total_programs |-> 0]
        ELSE [status |-> 200, body |-> content,
              total_channels |-> Len(FindAllTag(content.root, "channel")),
              total_programs |-> Len(FindAllTag(content.root, "programme"))]

\* GET /epg/{platform}
GetPlatformEpg(platform) ==
    /\ LoopFree
    /\ resp' = Response("platform", <<platform>>, GetSinglePlatformEpg(platform, files, day))
    /\ UNCHANGED <<day, files, pc, idx, lastRun, enabled, call>>

\* GET /all
GetAllEnabledPlatformsEpg ==
    /\ LoopFree
    /\ resp' = Response("all", <<"all">>, GetSinglePlatformEpg("all", files, day))
    /\ UNCHANGED <<day, files, pc, idx, lastRun, enabled, call>>

-----------------------------------------------------------------------------
(* The service *)

Init ==
    /\ day = 0
    /\ files = [n \in FileNames |-> [d \in Days |-> NoFile]]
    /\ resp = NoResponse
    /\ pc = [c \in Cycles |-> "idle"]
    /\ idx = 0
    /\ lastRun = NoRun
    /\ enabled = {"nowtv", "astro"}
    /\ call = NoCall

Next ==
    \/ \E c \in Cycles : StartCycle(c)
    \/ \E c \in Cycles : RunTask(c)
    \/ \E c \in Cycles : FinishCycle(c)
    \/ Tick
    \/ \E platform \in EnabledNames : GetPlatformEpg(platform)
    \/ GetAllEnabledPlatformsEpg
    \/ SendResponse

Spec == Init /\ [][Next]_vars

\* the same service with two platforms enabled whose adapters both give
\* channels (NowTV's channel number list is always empty)
InitAll ==
    /\ day = 0
    /\ files = [n \in FileNames |-> [d \in Days |-> NoFile]]
    /\ resp = NoResponse
    /\ pc = [c \in Cycles |-> "idle"]
    /\ idx = 0
    /\ lastRun = NoRun
    /\ enabled = {"tvb", "astro"}
    /\ call = NoCall

SpecAll == InitAll /\ [][Next]_vars

-----------------------------------------------------------------------------
(* Program times in the adapters.  A time is a number of minutes. *)

\* timedelta(minutes=30)
DefaultMinutes == 30

\* a Program as far as its times go: the position in the upstream list of
\* the record it was made from, start_time and end_time
TimedProgram(record, start_time, end_time) ==
    [record |-> record, start_time |-> start_time, end_time |-> end_time]

\* The start times of upstream records, in minutes
StartMinutes == {0, 30, 60}

\* the end is the default duration whatever follows
MyTvEndTimeAlwaysDefault(total_epg, i) ==
    [raised |-> FALSE, t |-> total_epg[i].t + DefaultMinutes]

\* MyTvSuperPlatform._fetch_channel_programs, the end time of record i
\* (whose start parsed): the start of the record after it; the default
\* duration when there is none or it has no start_datetime; strptime raises
\* when the start of the record after it is malformed
MyTvEndTime(total_epg, i) ==
    IF i < Len(total_epg)
    THEN LET next == total_epg[i + 1]
         IN  IF next.kind = "ok" THEN [raised |-> FALSE, t |-> next.t]
             ELSE IF next.kind = "absent"
                  THEN [raised |-> FALSE, t |-> total_epg[i].t + DefaultMinutes]
                  ELSE [raised |-> TRUE, t |-> 0]
    ELSE [raised |-> FALSE, t |-> total_epg[i].t + DefaultMinutes]

\* the body of `for i, epg_program in enumerate(total_epg)`: the programs
\* made of the records from position i on; a record without start is
\* passed over, and so is one whose processing raises
RECURSIVE MyTvPrograms(_, _)
MyTvPrograms(total_epg, i) ==
    IF i > Len(total_epg)
    THEN <<>>
    ELSE LET end == MyTvEndTime(total_epg, i)
         IN  IF total_epg[i].kind # "ok" \/ end.raised
             THEN MyTvPrograms(total_epg, i + 1)
             ELSE <<TimedProgram(i, total_epg[i].t, end.t)>> \o MyTvPrograms(total_epg, i + 1)

\* the upstream program lists of one channel; the start_datetime of a record
\* is absent (or empty), text that strptime rejects, or a time
MyTvLists ==
    LET fields == {[kind |-> "absent", t |-> 0], [kind |-> "malformed", t |-> 0]}
                  \cup {[kind |-> "ok", t |-> t] : t \in StartMinutes}
    IN  UNION {[1..n -> fields] : n \in 0..MaxRecords}

\* the program list of one MyTV Super channel is parsed
FetchChannelProgramsMyTv ==
    /\ call.fn = "none"
    /\ call.adapter = "tvb"
    /\ call' = [call EXCEPT !.fn = "_fetch_channel_programs",
                            !.out = MyTvPrograms(call.arg, 1)]
    /\ UNCHANGED <<day, files, resp, pc, idx, lastRun, enabled>>

\* The HH:MM texts of an RTHK program block: p.timeDis[0] and [2].  A text
\* is a clock time, absent (fewer than three elements), or text that
\* int() or datetime() rejects.
ClockTimes == {[kind |-> "ok", hour |-> h, min |-> m] : h \in {0, 11, 23}, m \in {0, 15, 30}}
NoClock == [kind |-> "absent", hour |-> 0, min |-> 0]
BadClock == [kind |-> "malformed", hour |-> 0, min |-> 0]

\* datetime(year, month, day, hour, min) on the date numbered date
DateTime(date, hour, min) == date * 1440 + hour * 60 + min

\* the end is always on the date of the block
RthkEndTimeSameDay(date, start, end) ==
    IF end.kind = "ok"
    THEN DateTime(date, end.hour, end.min)
    ELSE DateTime(date, start.hour, start.min) + DefaultMinutes

\* RTHKPlatform._parse_program_block, end_datetime of a block whose start
\* parsed: one day is added when the end is before the start on the clock;
\* the default duration when the end is absent or rejected
RthkEndTime(date, start, end) ==
    IF end.kind = "ok"
    THEN IF end.hour < start.hour \/ (end.hour = start.hour /\ end.min < start.min)
         THEN DateTime(date + 1, end.hour, end.min)
         ELSE DateTime(date, end.hour, end.min)
    ELSE DateTime(date, start.hour, start.min) + DefaultMinutes

\* RTHKPlatform._parse_program_block: None (no program) when the start is
\* absent or rejected or the block has no title link
ParseProgramBlock(block) ==
    IF block.start.kind # "ok" \/ ~block.titled
    THEN <<>>
    ELSE <<TimedProgram(1, DateTime(block.date, block.start.hour, block.start.min),
                        RthkEndTime(block.date, block.start, block.end))>>

\* the program blocks of one date block
RthkBlocks ==
    [date : Days, start : ClockTimes \cup {NoClock, BadClock},
     end : ClockTimes \cup {NoClock, BadClock}, titled : BOOLEAN]

\* one RTHK program block is parsed
ParseProgramBlockRthk ==
    /\ call.fn = "none"
    /\ call.adapter = "rthk"
    /\ call' = [call EXCEPT !.fn = "_parse_program_block",
                            !.out = ParseProgramBlock(call.arg)]
    /\ UNCHANGED <<day, files, resp, pc, idx, lastRun, enabled>>

\* The "start" and "end" of a Now TV EPG item, in minutes: a number or
\* absent (epg_item.get(key, 0))
NowTvStamp(field) == IF field.kind = "ok" THEN field.t ELSE 0

\* NowTVPlatform.fetch_programs: nothing without channel numbers; otherwise
\* one program per item with the start and the end the item carries
NowTvPrograms(channels, channel_epg) ==
    IF NowTvChannelNumbers(channels) = <<>>
    THEN <<>>
    ELSE [i \in 1..Len(channel_epg) |->
             TimedProgram(i, NowTvStamp(channel_epg[i].start), NowTvStamp(channel_epg[i].end))]

\* the EPG of one Now TV channel, as many as MaxList items
NowTvItems ==
    LET stamps == {[kind |-> "absent", t |-> 0]} \cup {[kind |-> "ok", t |-> t] : t \in StartMinutes}
    IN  UNION {[1..n -> [start : stamps, end : stamps]] : n \in 0..MaxList}

\* the programs of the Now TV channels are fetched
FetchProgramsNowTv ==
    /\ call.fn = "none"
    /\ call.adapter = "nowtv"
    /\ call' = [call EXCEPT !.fn = "fetch_programs",
                            !.out = NowTvPrograms(call.arg.channels, call.arg.epg)]
    /\ UNCHANGED <<day, files, resp, pc, idx, lastRun, enabled>>

\* The "start" and "end" of a StarHub resource: a timestamp or absent
\* (resource.get gives None and utc_to_utc8_datetime raises)
StarhubResources ==
    LET stamps == {[kind |-> "absent", t |-> 0]} \cup {[kind |-> "ok", t |-> t] : t \in {0, 30}}
    IN  UNION {[1..n -> [start : stamps, end : stamps]] : n \in 0..MaxRecords}

\* StarhubPlatform._fetch_channel_programs, `for resource in ...` from
\* position i on: a resource whose processing raises is passed over
RECURSIVE StarhubPrograms(_, _)
StarhubPrograms(resources, i) ==
    IF i > Len(resources)
    THEN <<>>
    ELSE IF resources[i].start.kind # "ok" \/ resources[i].end.kind # "ok"
         THEN StarhubPrograms(resources, i + 1)
         ELSE <<TimedProgram(i, resources[i].start.t, resources[i].end.t)>>
              \o StarhubPrograms(resources, i + 1)

\* the schedule of one StarHub channel is parsed
FetchChannelProgramsStarhub ==
    /\ call.fn = "none"
    /\ call.adapter = "starhub"
    /\ call' = [call EXCEPT !.fn = "_fetch_channel_programs",
                            !.out = StarhubPrograms(call.arg, 1)]
    /\ UNCHANGED <<day, files, resp, pc, idx, lastRun, enabled>>

\* the program blocks of one RTHK date block
RthkDateBlocks ==
    LET blocks == {b \in RthkBlocks :
                      /\ b.date = 0
                      /\ b.start \in {[kind |-> "ok", hour |-> 11, min |-> 0], BadClock}
                      /\ b.end \in {[kind |-> "ok", hour |-> 11, min |-> 30], BadClock}}
    IN  UNION {[1..n -> blocks] : n \in 0..MaxRecords}

\* RTHKPlatform._parse_epg_from_html, `for program_block in program_blocks`
\* from position i on: `if program: programs.append(program)`
RECURSIVE RthkPrograms(_, _)
RthkPrograms(program_blocks, i) ==
    IF i > Len(program_blocks)
    THEN <<>>
    ELSE LET program == ParseProgramBlock(program_blocks[i])
         IN  (IF program = <<>> THEN <<>> ELSE <<[program[1] EXCEPT !.record = i]>>)
             \o RthkPrograms(program_blocks, i + 1)

\* the program blocks of one RTHK date block are parsed
ParseEpgFromHtmlRthk ==
    /\ call.fn = "none"
    /\ call.adapter = "rthk.html"
    /\ call' = [call EXCEPT !.fn = "_parse_epg_from_html",
                            !.out = RthkPrograms(call.arg, 1)]
    /\ UNCHANGED <<day, files, resp, pc, idx, lastRun, enabled>>

\* The adapters' program parsers, each applied to one upstream answer.
Pending(adapter, arg) ==
    [fn |-> "none", adapter |-> adapter, arg |-> arg, out |-> <<>>, passes |-> 0]

InitPrograms ==
    /\ day = 0
    /\ files = [n \in FileNames |-> [d \in Days |-> NoFile]]
    /\ resp = NoResponse
    /\ pc = [c \in Cycles |-> "idle"]
    /\ idx = 0
    /\ lastRun = NoRun
    /\ enabled = {}
    /\ \/ \E total_epg \in MyTvLists : call = Pending("tvb", total_epg)
       \/ \E block \in RthkBlocks : call = Pending("rthk", block)
       \/ \E program_blocks \in RthkDateBlocks : call = Pending("rthk.html", program_blocks)
       \/ \E resources \in StarhubResources : call = Pending("starhub", resources)
       \/ \E channels \in {<<>>, <<Channel("096", "now")>>}, epg \in NowTvItems :
              call = Pending("nowtv", [channels |-> channels, epg |-> epg])

NextPrograms ==
    \/ FetchChannelProgramsMyTv
    \/ ParseProgramBlockRthk
    \/ FetchProgramsNowTv
    \/ FetchChannelProgramsStarhub
    \/ ParseEpgFromHtmlRthk

SpecPrograms == InitPrograms /\ [][NextPrograms]_vars

-----------------------------------------------------------------------------
(* The helper functions of the adapters, each applied to one input *)

\* A datetime: the number of the date and the time of day.
DateTimeOf(date, hour, minute, second) ==
    [date |-> date, hour |-> hour, minute |-> minute, second |-> second]

\* the seconds from the start of date 0
Seconds(dt) == ((dt.date * 24 + dt.hour) * 60 + dt.minute) * 60 + dt.second

\* target_time.astimezone(timezone.utc).strftime('%Y-%m-%dT%H:%M:%S.000Z')
\* of an Asia/Shanghai time (UTC+8): the fields of the UTC text
IsoUtc(dt) ==
    LET s == Seconds(dt) - 8 * 3600
    IN  DateTimeOf(s \div 86400, (s % 86400) \div 3600, (s % 3600) \div 60, s % 60)

\* math.ceil(n / d)
Ceil(n, d) == (n + d - 1) \div d

\* the minute is always rounded down to the hour
RoundedMinuteToHour(minute) == 0

\* 0 if minute < 30 else 30
RoundedMinute(minute) == IF minute < 30 THEN 0 ELSE 30

\* AstroPlatform._get_date_params, with datetime.now(Asia/Shanghai) = today
GetDateParams(today, date_delta) ==
    LET now == [today EXCEPT !.date = @ + date_delta]
    IN  IF date_delta = 0
        THEN LET target_time == [now EXCEPT !.minute = RoundedMinute(now.minute), !.second = 0]
                 next_day == DateTimeOf(target_time.date + 1, 0, 0, 0)
                 dur_seconds == Seconds(next_day) - Seconds(target_time)
             IN  [iso_str |-> IsoUtc(target_time), duration |-> Ceil(dur_seconds, 3600)]
        ELSE [iso_str |-> IsoUtc(DateTimeOf(now.date, 0, 0, 0)), duration |-> 24]

\* the window of one Astro query is computed
GetDateParamsAstro ==
    /\ call.fn = "none"
    /\ call.adapter = "astro"
    /\ call' = [call EXCEPT !.fn = "_get_date_params",
                            !.out = GetDateParams(call.arg.now, call.arg.date_delta)]
    /\ UNCHANGED <<day, files, resp, pc, idx, lastRun, enabled>>

\* A text is a sequence of characters: the ASCII brackets, the full-width
\* brackets U+FF08 and U+FF09, a blank and a letter.
IsOpen(c) == c \in {"FF08", "("}
IsClose(c) == c \in {"FF09", ")"}
IsBracket(c) == IsOpen(c) \/ IsClose(c)

\* the first position from i on that holds a bracket, Len(text) + 1 if none
RECURSIVE FirstBracket(_, _)
FirstBracket(text, i) ==
    IF i > Len(text) \/ IsBracket(text[i]) THEN i ELSE FirstBracket(text, i + 1)

\* the pattern [(open][^brackets]*[close)] matched at position i: the
\* position of its last character, 0 when it does not match there
MatchEnd(text, i) ==
    IF IsOpen(text[i])
    THEN LET j == FirstBracket(text, i + 1)
         IN  IF j <= Len(text) /\ IsClose(text[j]) THEN j ELSE 0
    ELSE 0

\* re.search(pattern, text)
ReSearch(text) == \E i \in 1..Len(text) : MatchEnd(text, i) # 0

\* re.sub(pattern, '', text) from position i on: every match, leftmost
\* first and not overlapping, is left out
RECURSIVE ReSub(_, _)
ReSub(text, i) ==
    IF i > Len(text)
    THEN <<>>
    ELSE IF MatchEnd(text, i) # 0
         THEN ReSub(text, MatchEnd(text, i) + 1)
         ELSE <<text[i]>> \o ReSub(text, i + 1)

RECURSIVE LStrip(_)
LStrip(text) == IF text # <<>> /\ Head(text) = " " THEN LStrip(Tail(text)) ELSE text
RECURSIVE RStrip(_)
RStrip(text) ==
    IF text # <<>> /\ text[Len(text)] = " " THEN RStrip(SubSeq(text, 1, Len(text) - 1)) ELSE text

\* only the leading blanks are removed
StripLeading(text) == LStrip(text)

\* str.strip()
Strip(text) == RStrip(LStrip(text))

\* utils.remove_brackets as a function
RECURSIVE RemoveBrackets(_)
RemoveBrackets(text) ==
    IF ReSearch(text) THEN RemoveBrackets(ReSub(text, 1)) ELSE Strip(text)

\* the value of the variable text of a running remove_brackets
RunningText == IF call.fn = "none" THEN call.arg ELSE call.out

\* one pass of `while re.search(pattern, text): text = re.sub(...)`
RemoveBracketsPass ==
    /\ call.adapter = "remove_brackets"
    /\ call.fn \in {"none", "while"}
    /\ ReSearch(RunningText)
    /\ call' = [call EXCEPT !.fn = "while",
                            !.out = ReSub(RunningText, 1),
                            !.passes = @ + 1]
    /\ UNCHANGED <<day, files, resp, pc, idx, lastRun, enabled>>

\* the loop is left and `return text.strip()`
RemoveBracketsReturn ==
    /\ call.adapter = "remove_brackets"
    /\ call.fn \in {"none", "while"}
    /\ ~ReSearch(RunningText)
    /\ call' = [call EXCEPT !.fn = "remove_brackets", !.out = Strip(RunningText)]
    /\ UNCHANGED <<day, files, resp, pc, idx, lastRun, enabled>>

\* Titles and descriptions: texts of a Latin letter and the ideograph
\* U+4E2D.  The suffixes use U+7B2C and U+96C6.
Titles == UNION {[1..n -> {"a", "U4E2D"}] : n \in 0..MaxList}
Ideographs == {"U4E2D", "U7B2C", "U96C6"}

\* utils.has_chinese
HasChinese(text) == \E i \in 1..Len(text) : text[i] \in Ideographs

\* `if episode_number:` on the episode number of an upstream record, None
\* or a number
Truthy(episode) == episode.present /\ episode.n # 0

\* title += f" (U+7B2C){episode_number}(U+96C6)"; title += f" Ep{episode_number}"
SuffixZh(n) == <<" ", "U7B2C", n, "U96C6">>
SuffixEp(n) == <<" ", "E", "p", n>>

\* AstroPlatform.fetch_programs, the title of a program
AstroTitle(title, description, episode_number) ==
    IF Truthy(episode_number)
    THEN IF HasChinese(title) \/ HasChinese(description)
         THEN title \o SuffixZh(episode_number.n)
         ELSE title \o SuffixEp(episode_number.n)
    ELSE title

\* StarhubPlatform._fetch_channel_programs, the title of a program
StarhubTitle(title, description, episode_number) ==
    IF Truthy(episode_number)
    THEN IF HasChinese(title) \/ HasChinese(description)
         THEN title \o SuffixZh(episode_number.n)
         ELSE title \o SuffixEp(episode_number.n)
    ELSE title

\* HOYPlatform._parse_epg_xml, the title of a program: EpisodeIndex is "0"
\* when the element is absent; the description of the program is ""
HoyProgramName(short_desc, episode_index_elem) ==
    LET episode_index == IF episode_index_elem.present THEN episode_index_elem.n ELSE 0
    IN  IF episode_index > 0
        THEN short_desc \o SuffixZh(episode_index)
        ELSE short_desc

\* the upstream records as far as the title goes
TitledRecords ==
    [title : Titles, description : Titles,
     episode_number : {[present |-> FALSE, n |-> 0]}
                      \cup {[present |-> TRUE, n |-> n] : n \in {0, 3}}]

\* the title of one Astro program is built
FetchProgramsAstroTitle ==
    /\ call.fn = "none"
    /\ call.adapter = "astro.title"
    /\ call' = [call EXCEPT !.fn = "fetch_programs",
                            !.out = AstroTitle(call.arg.title, call.arg.description,
                                               call.arg.episode_number)]
    /\ UNCHANGED <<day, files, resp, pc, idx, lastRun, enabled>>

\* the title of one StarHub program is built
FetchChannelProgramsStarhubTitle ==
    /\ call.fn = "none"
    /\ call.adapter = "starhub.title"
    /\ call' = [call EXCEPT !.fn = "_fetch_channel_programs",
                            !.out = StarhubTitle(call.arg.title, call.arg.description,
                                                 call.arg.episode_number)]
    /\ UNCHANGED <<day, files, resp, pc, idx, lastRun, enabled>>

\* the title of one HOY program is built
ParseEpgXmlHoyTitle ==
    /\ call.fn = "none"
    /\ call.adapter = "hoy.title"
    /\ call.arg.description = <<>>
    /\ call' = [call EXCEPT !.fn = "_parse_epg_xml",
                            !.out = HoyProgramName(call.arg.title, call.arg.episode_number)]
    /\ UNCHANGED <<day, files, resp, pc, idx, lastRun, enabled>>

\* The serializer.  A name or a title is a text of a letter, an ampersand
\* and the control character U+0008, which XML 1.0 does not allow.
Names == {<<>>} \cup {<<c>> : c \in {"a", "&", "U0008"}}

\* ElementTree's escaping of attribute values and of text
\* (_escape_attrib, _escape_cdata): & becomes &amp; and every other
\* character of the model is written as it is
RECURSIVE EscapeText(_)
EscapeText(text) ==
    IF text = <<>>
    THEN <<>>
    ELSE (IF Head(text) = "&" THEN <<"&", "a", "m", "p", ";">> ELSE <<Head(text)>>)
         \o EscapeText(Tail(text))

\* time_stamp_to_timezone_str: astimezone(Asia/Shanghai), UTC+8, and
\* strftime('%Y%m%d%H%M%S %z'): the fields of the text, z = 800 for "+0800"
TimeStampToTimezoneStr(timestamp_s) ==
    LET local == timestamp_s.utc + 8 * 3600
    IN  [date |-> local \div 86400, hour |-> (local % 86400) \div 3600,
         minute |-> (local % 3600) \div 60, second |-> local % 60, z |-> 800]

\* clean_invalid_xml_chars
CleanInvalidXmlChars(text) == SelectSeq(text, LAMBDA c : c # "U0008")

\* every program gets a <desc>
DescPresentAlways(description) == TRUE

\* `if programs["description"]:`
DescPresent(description) == description # <<>>

\* the <desc> of a program: its text is cleaned, escaped by html.escape and
\* escaped again when the document is written
DescOf(description) ==
    IF DescPresent(description)
    THEN [present |-> TRUE, text |-> EscapeText(EscapeText(CleanInvalidXmlChars(description)))]
    ELSE [present |-> FALSE, text |-> <<>>]

\* generateEpg with ET.tostring: the attribute values and texts of the
\* document, as written, and the tags of the children of <tv> in document
\* order
GenerateEpgXml(channels, programs) ==
    [channels |-> [i \in 1..Len(channels) |-> [id |-> EscapeText(channels[i].channelName)]],
     programmes |->
        [i \in 1..Len(programs) |->
            [channel |-> EscapeText(programs[i].channelName),
             start |-> TimeStampToTimezoneStr(programs[i].start),
             stop |-> TimeStampToTimezoneStr(programs[i].end),
             title |-> EscapeText(programs[i].programName),
             desc |-> DescOf(programs[i].description)]],
     tags |-> [i \in 1..Len(channels) |-> "channel"] \o [i \in 1..Len(programs) |-> "programme"]]

\* the inputs of generateEpg: the channel dicts and at most one program dict
SerializerChannels == UNION {[1..n -> [channelName : Names]] : n \in 0..MaxList}
\* An aware datetime is the instant in seconds since the start of date 0 UTC,
\* the microsecond, and the UTC offset of its zone in seconds.
SerializerPrograms ==
    {<<>>} \cup {<<[channelName |-> c, programName |-> t, start |-> st,
                    end |-> [st EXCEPT !.utc = @ + 1800], description |-> <<>>]>> :
                    c \in Names, t \in Names,
                    st \in [utc : {0, 72000}, microsecond : {0, 500000},
                            offset : {0, 8 * 3600}]}

\* program lists with descriptions: a program can be in the list twice
DescribedProgramLists ==
    LET described ==
            [channelName : {<<"a">>}, programName : {<<"a">>, <<"&">>},
             start : {[utc |-> 0, microsecond |-> 0, offset |-> 0]},
             end : {[utc |-> 1800, microsecond |-> 0, offset |-> 0]},
             description : {<<>>, <<"a">>, <<"U0008">>}]
    IN  UNION {[1..n -> described] : n \in 0..MaxList}

\* one document is generated
GenerateEpgCall ==
    /\ call.fn = "none"
    /\ call.adapter = "generateEpg"
    /\ call' = [call EXCEPT !.fn = "generateEpg",
                            !.out = GenerateEpgXml(call.arg.channels, call.arg.programs)]
    /\ UNCHANGED <<day, files, resp, pc, idx, lastRun, enabled>>

\* The transport.  One attempt of requests.get ends with a response that
\* is ok, with a response that is not (HTTPError), with a
\* requests.RequestException, or with another exception.

\* retry_if_exception_type((requests.RequestException, HTTPError))
RetryIf(outcome) == outcome \in {"RequestException", "HTTPError"}

\* the attempts stop after the first one
StopAfterFirstAttempt(attempt_number, max_attempt_number) == TRUE

\* stop_after_attempt(Config.HTTP_MAX_RETRIES)
StopAfterAttempt(attempt_number, max_attempt_number) == attempt_number >= max_attempt_number

\* HTTPClient.get, one attempt under @retry(reraise=True): the response is
\* returned; an exception that is not retried, or a retried one once the
\* stop condition holds, is raised; otherwise the call waits and tries again
HttpGetAttempt ==
    /\ call.adapter = "HTTPClient.get"
    /\ call.fn \in {"none", "retry"}
    /\ LET attempt_number == call.passes + 1
           outcome == call.arg.upstream[attempt_number]
       IN  call' =
               IF outcome = "ok"
               THEN [call EXCEPT !.fn = "get", !.passes = attempt_number,
                                 !.out = [raised |-> "none", response |-> attempt_number]]
               ELSE IF ~RetryIf(outcome)
                       \/ StopAfterAttempt(attempt_number, call.arg.HTTP_MAX_RETRIES)
                    THEN [call EXCEPT !.fn = "get", !.passes = attempt_number,
                                      !.out = [raised |-> outcome, response |-> 0]]
                    ELSE [call EXCEPT !.fn = "retry", !.passes = attempt_number,
                                      !.out = [raised |-> outcome, response |-> 0]]
    /\ UNCHANGED <<day, files, resp, pc, idx, lastRun, enabled>>

\* The adapters that make their EPG requests channel by channel.
PerChannelPlatforms == {"tvb", "hami", "rthk", "hoy", "starhub"}

\* for i in range(7) of HamiPlatform._fetch_channel_programs
HamiDays == 7

\* the EPG requests of one channel: one per day in Hami, one in the others
RequestsOf(platform) == IF platform = "hami" THEN 0..(HamiDays - 1) ELSE {0}

\* the channels given to fetch_programs, numbered in list order, each with
\* the requests of it that fail after their retries: none, one of them, or
\* all; request r of channel c answers the program (c, r)
FetchedChannels(platform) ==
    LET failed == {{}} \cup {{r} : r \in RequestsOf(platform)} \cup {RequestsOf(platform)}
    IN  UNION {[1..n -> failed] : n \in 0..MaxList}

\* HamiPlatform._fetch_channel_programs from day i on: a day whose request
\* raises is passed over inside the function
RECURSIVE HamiChannelPrograms(_, _, _)
HamiChannelPrograms(channel_id, failed, i) ==
    IF i >= HamiDays
    THEN <<>>
    ELSE (IF i \in failed THEN <<>> ELSE <<Program(channel_id, i)>>)
         \o HamiChannelPrograms(channel_id, failed, i + 1)

\* _fetch_channel_programs: the programs, or the exception of the request
FetchChannelPrograms(platform, channel_id, failed) ==
    IF platform = "hami"
    THEN [raised |-> FALSE, programs |-> HamiChannelPrograms(channel_id, failed, 0)]
    ELSE IF 0 \in failed
         THEN [raised |-> TRUE, programs |-> <<>>]
         ELSE [raised |-> FALSE, programs |-> <<Program(channel_id, 0)>>]

\* the first channel that raises ends the loop
RECURSIVE FetchProgramsLoopAbort(_, _, _)
FetchProgramsLoopAbort(platform, channels, c) ==
    IF c > Len(channels)
    THEN <<>>
    ELSE LET result == FetchChannelPrograms(platform, c, channels[c])
         IN  IF result.raised
             THEN <<>>
             ELSE result.programs \o FetchProgramsLoopAbort(platform, channels, c + 1)

\* fetch_programs, `for channel in channels` from channel c on:
\* all_programs.extend(programs), or `continue` when the channel raised
RECURSIVE FetchProgramsLoop(_, _, _)
FetchProgramsLoop(platform, channels, c) ==
    IF c > Len(channels)
    THEN <<>>
    ELSE LET result == FetchChannelPrograms(platform, c, channels[c])
         IN  (IF result.raised THEN <<>> ELSE result.programs)
             \o FetchProgramsLoop(platform, channels, c + 1)

\* the programs of the channels of one per-channel adapter are fetched
FetchProgramsPerChannel ==
    /\ call.fn = "none"
    /\ call.adapter = "fetch_programs"
    /\ call' = [call EXCEPT !.fn = "fetch_programs",
                            !.out = FetchProgramsLoop(call.arg.platform, call.arg.channels, 1)]
    /\ UNCHANGED <<day, files, resp, pc, idx, lastRun, enabled>>

\* Astro.  for day in range(7)
AstroDays == 7

\* what the grid query of day d answers: the query raises, or
\* raw_epg["channels"] lists no channel, channel 1, or channel 2 and then
\* channel 1; the schedule of a channel on a day is the one item (id, day)
AstroAnswer(d, kind) ==
    LET ids == IF kind = "one" THEN <<1>> ELSE IF kind = "two" THEN <<2, 1>> ELSE <<>>
    IN  [raised |-> kind = "raised",
         channels |-> [i \in 1..Len(ids) |->
                          [id |-> ids[i], schedule |-> <<[id |-> ids[i], day |-> d]>>]]]

\* merged_channels, a dict in insertion order: the entry of channel_id is
\* made if it is missing, and schedule is added at its end
DictExtend(merged_channels, channel_id, schedule) ==
    IF \E k \in DOMAIN merged_channels : merged_channels[k].id = channel_id
    THEN [k \in DOMAIN merged_channels |->
             IF merged_channels[k].id = channel_id
             THEN [merged_channels[k] EXCEPT !.schedule = @ \o schedule]
             ELSE merged_channels[k]]
    ELSE Append(merged_channels, [id |-> channel_id, schedule |-> schedule])

\* `for channel_data in raw_epg["channels"]`
RECURSIVE MergeChannelData(_, _)
MergeChannelData(merged_channels, channels) ==
    IF channels = <<>>
    THEN merged_channels
    ELSE MergeChannelData(DictExtend(merged_channels, Head(channels).id, Head(channels).schedule),
                          Tail(channels))

\* the first day whose query raises ends the loop
RECURSIVE AstroMergeDaysStopAtFailure(_, _, _)
AstroMergeDaysStopAtFailure(answers, d, acc) ==
    IF d >= AstroDays \/ answers[d].raised
    THEN acc
    ELSE AstroMergeDaysStopAtFailure(answers, d + 1,
             [queries |-> Append(acc.queries, d),
              merged_channels |-> MergeChannelData(acc.merged_channels, answers[d].channels)])

\* AstroPlatform.fetch_programs, `for day in range(7)` from day d on: one
\* query a day; a day whose query raises is passed over
RECURSIVE AstroMergeDays(_, _, _)
AstroMergeDays(answers, d, acc) ==
    IF d >= AstroDays
    THEN acc
    ELSE AstroMergeDays(answers, d + 1,
             [queries |-> Append(acc.queries, d),
              merged_channels |->
                  IF answers[d].raised
                  THEN acc.merged_channels
                  ELSE MergeChannelData(acc.merged_channels, answers[d].channels)])

\* `for channel_id, schedule in merged_channels.items()`: the programs
RECURSIVE FlattenSchedules(_)
FlattenSchedules(merged_channels) ==
    IF merged_channels = <<>>
    THEN <<>>
    ELSE Head(merged_channels).schedule \o FlattenSchedules(Tail(merged_channels))

\* AstroPlatform.fetch_programs for a channel list that is not empty
AstroFetchPrograms(answers) ==
    LET acc == AstroMergeDays(answers, 0, [queries |-> <<>>, merged_channels |-> <<>>])
    IN  [queries |-> acc.queries, programs |-> FlattenSchedules(acc.merged_channels)]

\* the programs of the Astro channels are fetched
FetchProgramsAstro ==
    /\ call.fn = "none"
    /\ call.adapter = "astro.fetch_programs"
    /\ call' = [call EXCEPT !.fn = "fetch_programs", !.out = AstroFetchPrograms(call.arg)]
    /\ UNCHANGED <<day, files, resp, pc, idx, lastRun, enabled>>

InitFunctions ==
    /\ day = 0
    /\ files = [n \in FileNames |-> [d \in Days |-> NoFile]]
    /\ resp = NoResponse
    /\ pc = [c \in Cycles |-> "idle"]
    /\ idx = 0
    /\ lastRun = NoRun
    /\ enabled = {}
    /\ \/ \E h \in 0..23, m \in {0, 1, 29, 30, 34, 59}, sec \in {0, 59},
             date_delta \in 0..MaxDelta :
              call = Pending("astro", [now |-> DateTimeOf(1, h, m, sec),
                                       date_delta |-> date_delta])
       \/ \E n \in 0..MaxLen :
              \E text \in [1..n -> {"(", ")", "FF08", "FF09", " ", "a"}] :
                  call = Pending("remove_brackets", text)
       \/ \E channels \in SerializerChannels, programs \in SerializerPrograms :
              call = Pending("generateEpg", [channels |-> channels, programs |-> programs])
       \/ \E channels \in SerializerChannels, programs \in DescribedProgramLists :
              call = Pending("generateEpg", [channels |-> channels, programs |-> programs])
       \/ \E retries \in 0..MaxRetries,
             upstream \in [1..(MaxRetries + 1) ->
                              {"ok", "HTTPError", "RequestException", "Exception"}] :
              call = Pending("HTTPClient.get",
                             [HTTP_MAX_RETRIES |-> retries, upstream |-> upstream])
       \/ \E platform \in PerChannelPlatforms :
              \E channels \in FetchedChannels(platform) :
                  call = Pending("fetch_programs", [platform |-> platform, channels |-> channels])
       \/ \E kinds \in [0..(AstroDays - 1) -> {"raised", "none", "one", "two"}] :
              call = Pending("astro.fetch_programs",
                             [d \in 0..(AstroDays - 1) |-> AstroAnswer(d, kinds[d])])
       \/ \E record \in TitledRecords : call = Pending("astro.title", record)
       \/ \E record \in TitledRecords : call = Pending("starhub.title", record)
       \/ \E record \in TitledRecords :
              record.description = <<>> /\ call = Pending("hoy.title", record)

NextFunctions ==
    \/ GetDateParamsAstro
    \/ RemoveBracketsPass
    \/ RemoveBracketsReturn
    \/ FetchProgramsAstroTitle
    \/ FetchChannelProgramsStarhubTitle
    \/ ParseEpgXmlHoyTitle
    \/ GenerateEpgCall
    \/ HttpGetAttempt
    \/ FetchProgramsPerChannel
    \/ FetchProgramsAstro

SpecFunctions == InitFunctions /\ [][NextFunctions]_vars

-----------------------------------------------------------------------------
(* The event loop: the callbacks of the updates, of their fetch tasks and of
   the request handlers, run one at a time in the order they were queued *)

Callback(kind, cycle, platform) == [kind |-> kind, cycle |-> cycle, platform |-> platform]
NoCallback == Callback("none", "none", "none")

\* every awaited call gives the loop to the other callbacks
IsSuspensionPointAlways(callee) == TRUE

\* whether a callback that reaches the call gives the loop to the other
\* callbacks until the call returns: `await asyncio.gather(...)` does;
\* HTTPClient.get is requests.get under a tenacity retry that sleeps in
\* the thread, and the awaits around it never reach a suspending future
IsSuspensionPoint(callee) == callee = "asyncio.gather"

\* asyncio.gather(*tasks): one task per enabled platform, queued in order
GatherTasks(c) ==
    [i \in 1..Len(GetEnabledPlatforms) |-> Callback("task", c, GetEnabledPlatforms[i])]

\* the gather of update c is complete once its last task is done
Gathered(task, c) == \A p \in EnabledNames : task[c][p] = "done"

\* the callbacks queued when a task of update c ends: the update resumes
\* after its gather
AfterTask(task, c) ==
    IF Gathered(task, c) THEN <<Callback("finish", c, "none")>> ELSE <<>>

\* the document a fetch of the platform saves
FetchedDocument(platform) == Xml(<<ChannelElem("1", platform)>>)

\* the job of the scheduler comes due: scheduled_epg_update is queued
IntervalFires ==
    /\ call.adapter = "loop"
    /\ ~call.fired
    /\ call' = [call EXCEPT !.fired = TRUE,
                            !.ready = @ \o <<Callback("update", "scheduled", "none")>>]
    /\ UNCHANGED <<day, files, resp, pc, idx, lastRun, enabled>>

\* a GET request arrives: its handler is queued
RequestArrives ==
    /\ call.adapter = "loop"
    /\ call.get = "none"
    /\ call' = [call EXCEPT !.get = "queued", !.ready = @ \o <<Callback("get", "none", "none")>>]
    /\ UNCHANGED <<day, files, resp, pc, idx, lastRun, enabled>>

\* the loop runs the callback at the head of its queue, up to the point
\* where it suspends, blocks or returns
RunCallback ==
    /\ call.adapter = "loop"
    /\ call.running = NoCallback
    /\ call.ready # <<>>
    /\ LET cb == Head(call.ready)
           rest == Tail(call.ready)
       IN  CASE cb.kind = "update" ->
                  \* update_all_enabled_platforms up to `await asyncio.gather`
                  /\ call' = [call EXCEPT
                                 !.ready = rest \o GatherTasks(cb.cycle),
                                 !.task[cb.cycle] =
                                     [p \in PlatformNames |->
                                         IF p \in EnabledNames THEN "queued" ELSE "none"]]
                  /\ files' = files
             [] cb.kind = "task" ->
                  \* the fetcher up to its return (cache hit) or to its
                  \* first upstream request
                  IF CacheHit(files, cb.platform, day)
                  THEN LET task == [call.task EXCEPT ![cb.cycle][cb.platform] = "done"]
                       IN  /\ call' = [call EXCEPT !.task = task,
                                                   !.ready = rest \o AfterTask(task, cb.cycle)]
                           /\ files' = files
                  ELSE /\ call' = [call EXCEPT
                                      !.ready = rest,
                                      !.task[cb.cycle][cb.platform] = "fetching",
                                      !.running = IF IsSuspensionPoint("HTTPClient.get")
                                                  THEN NoCallback ELSE cb]
                       /\ files' = files
             [] cb.kind = "finish" ->
                  \* update_all_enabled_platforms after the gather
                  /\ call' = [call EXCEPT !.ready = rest, !.finished = @ \cup {cb.cycle}]
                  /\ files' = IF ReadEpgFile(files, "all", day) # NoFile
                              THEN files
                              ELSE GenerateAllPlatformsCache(files, day, "ok")
             [] cb.kind = "get" ->
                  /\ call' = [call EXCEPT !.ready = rest, !.get = "served"]
                  /\ files' = files
    /\ UNCHANGED <<day, resp, pc, idx, lastRun, enabled>>

\* the upstream requests of a fetch task return and the task runs to its
\* end: with data the document is saved and the old files are deleted
FetchReturns(c, platform) ==
    /\ call.adapter = "loop"
    /\ call.task[c][platform] = "fetching"
    /\ call.running \in {NoCallback, Callback("task", c, platform)}
    /\ \E data \in BOOLEAN :
          files' = IF data
                   THEN DeleteOldEpgFiles(
                            SaveEpgFile(files, platform, FetchedDocument(platform), day, "ok"),
                            platform, day)
                   ELSE files
    /\ LET task == [call.task EXCEPT ![c][platform] = "done"]
       IN  call' = [call EXCEPT !.task = task,
                                !.running = NoCallback,
                                !.ready = @ \o AfterTask(task, c)]
    /\ UNCHANGED <<day, resp, pc, idx, lastRun, enabled>>

\* startup() has started the scheduler and queued the first update
InitLoop ==
    /\ day = 0
    /\ files = [n \in FileNames |-> [d \in Days |-> NoFile]]
    /\ resp = NoResponse
    /\ pc = [c \in Cycles |-> "idle"]
    /\ idx = 0
    /\ lastRun = NoRun
    /\ enabled = {"tvb", "astro"}
    /\ call = [fn |-> "none", adapter |-> "loop",
               ready |-> <<Callback("update", "startup", "none")>>,
               running |-> NoCallback,
               task |-> [c \in Cycles |-> [p \in PlatformNames |-> "none"]],
               finished |-> {},
               fired |-> FALSE,
               get |-> "none"]

NextLoop ==
    \/ IntervalFires
    \/ RequestArrives
    \/ RunCallback
    \/ \E c \in Cycles, platform \in PlatformNames : FetchReturns(c, platform)

SpecLoop == InitLoop /\ [][NextLoop]_vars

-----------------------------------------------------------------------------
(* The merge engine over documents the pipelines can have stored *)

\* the documents at the paths of these two platforms vary
MergeNames == {"cn", "starhub"}

\* the channel attribute of a programme
ProgChanIds == ChanIds \ {ApostropheId}

\* get_cn_channels_epg stores ET.tostring(ET.fromstring(response.text)):
\* whatever well-formed document the upstream sent.  Here: the documents of
\* n elements, c channels first, the k-th programme with title k.
CnDocs(n) ==
    UNION {{Xml([k \in 1..c |-> ChannelElem(cs[k], "cn")]
                \o [k \in 1..(n - c) |-> ProgrammeElem(ps[k], k, "cn")]) :
               cs \in [1..c -> ChanIds], ps \in [1..(n - c) -> ProgChanIds]} :
           c \in 0..n}

\* StarhubPlatform.fetch_channels and fetch_programs: the programs come
\* channel by channel, each with the channel_id of its channel.  Here: c
\* channels whose id is their name, and m programs, the k-th with title k
\* and fetched for the channel at position at[k].
StarhubResults(c, m) ==
    {[channels |-> [k \in 1..c |-> Channel(ns[k], ns[k])],
      programs |-> [k \in 1..m |-> Program(ns[at[k]], k)]] :
        ns \in [1..c -> ChanIds],
        at \in {f \in [1..m -> 1..c] : \A k \in 1..m : k < m => f[k] <= f[k + 1]}}

\* request_starhub_epg stores nothing when the channel list is empty
StarhubDocs(n) ==
    UNION {{GenChannel(r.channels, r.programs, "starhub") : r \in StarhubResults(c, n - c)} :
           c \in 1..n}

\* what can be at today's path of a platform: nothing, a document of its
\* pipeline, or what a save that failed after open() left (no byte, or a
\* prefix of the document)
BrokenContents == {NoFile, EmptyFile, Garbage}

InitMerge ==
    /\ day = 0
    /\ \E n1 \in 0..MaxElems :
          \E n2 \in 0..(MaxElems - n1) :
             \E cn \in BrokenContents \cup CnDocs(n1),
                sh \in BrokenContents \cup StarhubDocs(n2) :
                files = [n \in FileNames |->
                           [d \in Days |->
                              IF d # 0 THEN NoFile
                              ELSE IF n = "cn" THEN cn
                              ELSE IF n = "starhub" THEN sh
                              ELSE NoFile]]
    /\ resp = NoResponse
    /\ pc = [c \in Cycles |-> "idle"]
    /\ idx = 0
    /\ lastRun = NoRun
    /\ enabled = MergeNames
    /\ call = NoCall

NextMerge ==
    \/ \E platform_list \in SeqsUpTo(MergeNames, MaxList) :
          GetCustomAggregateEpg(platform_list)
    \/ SendResponse

SpecMerge == InitMerge /\ [][NextMerge]_vars

-----------------------------------------------------------------------------
(* Properties of the merge engine (SpecMerge) *)

Today(name) == files[name][day]
Usable(name) == Today(name).kind = "xml"

ElementsOf(root, tag) == {root[i] : i \in {j \in 1..Len(root) : root[j].tag = tag}}
ChannelIdsOf(root) == {e.ch : e \in ElementsOf(root, "channel")}
ProgrammesNaming(root, id) == SelectSeq(root, LAMBDA e : e.tag = "programme" /\ e.ch = id)

Merged == resp.op = "aggregate" /\ resp.status = 200

\* the positions of the request list whose document has a <channel id=id>
Holders(id) ==
    {i \in 1..Len(resp.platforms) :
        Usable(resp.platforms[i]) /\ id \in ChannelIdsOf(Today(resp.platforms[i]).root)}

Earliest(S) == CHOOSE i \in S : \A j \in S : i <= j

SharedBy(id) == Cardinality({resp.platforms[i] : i \in Holders(id)}) >= 2

PriorityFor(id) ==
    SharedBy(id) =>
        ProgrammesNaming(resp.body.root, id) =
            ProgrammesNaming(Today(resp.platforms[Earliest(Holders(id))]).root, id)

\* C1 as stated: for every channel id that the documents of two or more
\* listed platforms hold, the programmes of that id in the merged output
\* are exactly the programmes of that id in the document of the earliest
\* listed platform that holds the id.
C1_MergePriorityEveryId == Merged => \A id \in ChanIds : PriorityFor(id)

\* C1 amended: the same for every non-empty channel id (a channel with an
\* empty id is never kept, so none of its programmes is in the output).
C1_MergePriority == Merged => \A id \in ChanIds \ {""} : PriorityFor(id)

\* two listed platforms hold channel A with different programmes, and the
\* output has the programmes of the one listed first
C1_Witness ==
    /\ Merged
    /\ Len(resp.platforms) = 2
    /\ SharedBy("A")
    /\ ProgrammesNaming(Today(resp.platforms[1]).root, "A") # <<>>
    /\ ProgrammesNaming(Today(resp.platforms[2]).root, "A") # <<>>
    /\ ProgrammesNaming(resp.body.root, "A") =
           ProgrammesNaming(Today(resp.platforms[1]).root, "A")

\* C2: in the merged output no two <channel> elements have the same id;
\* the programmes the output holds for a kept channel are the programmes
\* naming that channel in the document the channel element was copied
\* from, once each and in the order of that document; every programme of
\* the output names a channel that has a <channel> element in the output.
C2_MergeDedup ==
    Merged =>
        LET out == resp.body.root
        IN  /\ \A i, j \in 1..Len(out) :
                  (out[i].tag = "channel" /\ out[j].tag = "channel" /\ out[i].ch = out[j].ch)
                      => i = j
            /\ \A e \in ElementsOf(out, "channel") :
                  ProgrammesNaming(out, e.ch) = ProgrammesNaming(Today(e.src).root, e.ch)
            /\ \A e \in ElementsOf(out, "programme") : e.ch \in ChannelIdsOf(out)

\* one document lists channel A twice and has two programmes for it
C2_Witness ==
    /\ Merged
    /\ \E p \in MergeNames :
          /\ Len(SelectSeq(Today(p).root, LAMBDA e : e.tag = "channel" /\ e.ch = "A")) = 2
          /\ Len(ProgrammesNaming(Today(p).root, "A")) = 2
          /\ resp.platforms = <<p>>
    /\ Len(ProgrammesNaming(resp.body.root, "A")) = 2

SingleInput == resp.op = "aggregate" /\ Len(resp.platforms) = 1 /\ Usable(resp.platforms[1])

\* C3 as stated: merging one document of the pipeline as the only input
\* yields a document with the same set of channel elements and the same
\* set of programme elements.
C3_SingleMergeSameSets ==
    SingleInput =>
        LET doc == Today(resp.platforms[1]).root
        IN  /\ resp.status = 200
            /\ ElementsOf(resp.body.root, "channel") = ElementsOf(doc, "channel")
            /\ ElementsOf(resp.body.root, "programme") = ElementsOf(doc, "programme")

\* C3 amended: when the merge of one document returns a document, its
\* channel elements are the channel elements of the input with a non-empty
\* id, and its programme elements are the programme elements of the input
\* that name such a channel; it returns no document but 404 exactly when
\* the input has no channel element with a non-empty id.
C3_SingleMergeKeptSets ==
    SingleInput =>
        LET doc == Today(resp.platforms[1]).root
            kept == ChannelIdsOf(doc) \ {""}
        IN  /\ resp.status = 200 =>
                /\ ElementsOf(resp.body.root, "channel") =
                       {e \in ElementsOf(doc, "channel") : e.ch # ""}
                /\ ElementsOf(resp.body.root, "programme") =
                       {e \in ElementsOf(doc, "programme") : e.ch \in kept}
            /\ resp.status = 404 <=> kept = {}

\* a single document with a channel, a programme of it and a programme of
\* no channel is merged: the output has the first programme only
C3_Witness ==
    /\ SingleInput
    /\ resp.status = 200
    /\ LET doc == Today(resp.platforms[1]).root
       IN  /\ \E e \in ElementsOf(doc, "programme") : e.ch \in ChannelIdsOf(doc) \ {""}
           /\ \E e \in ElementsOf(doc, "programme") : e.ch \notin ChannelIdsOf(doc) \ {""}
           /\ ElementsOf(resp.body.root, "programme") # {}

\* a listed platform whose document has a channel the merge keeps
Survives(name) == Usable(name) /\ ChannelIdsOf(Today(name).root) \ {""} # {}

\* C4: the aggregate request answers 404 exactly when no channel of any
\* listed platform survives, and answers 200 with the merged document in
\* every other case.
C4_NoDataOnlyWhenNothingSurvives ==
    resp.op = "aggregate" =>
        LET nothing == \A i \in 1..Len(resp.platforms) : ~Survives(resp.platforms[i])
        IN  /\ resp.status = 404 <=> nothing
            /\ ~nothing => resp.status = 200

\* the platforms of the list the merge does not skip
NotSkipped == SelectSeq(resp.platforms, Usable)

\* C5: a listed platform whose document is missing or not well-formed
\* contributes no element, and the answer is the answer to the request
\* with the skipped platforms left out of the list.
C5_SkippedPlatformsLeaveNoTrace ==
    resp.op = "aggregate" =>
        /\ \A e \in ElementsOf(resp.body.root, "channel") \cup ElementsOf(resp.body.root, "programme") :
              \E i \in 1..Len(NotSkipped) : NotSkipped[i] = e.src
        /\ Response("aggregate", resp.platforms, AggregateEpgFiles(NotSkipped, files, day)) = resp

\* a document that is not well-formed is listed before a good one, and the
\* good one is merged
C5_Witness ==
    /\ Merged
    /\ Len(resp.platforms) = 2
    /\ Today(resp.platforms[1]) = Garbage
    /\ Usable(resp.platforms[2])
    /\ resp.total_channels > 0

-----------------------------------------------------------------------------
(* Properties of the update cycle and of serving one platform (Spec) *)

\* the step is the run of the fetch task of platform p
TaskStep(p) ==
    /\ \E c \in Cycles : pc[c] = "fetch"
    /\ GetEnabledPlatforms[idx] = p
    /\ idx' # idx

C7_NothingFetchedNothingWritten ==
    (/\ lastRun.outcome \notin {"none", "hit"}
     /\ lastRun.up.channels = <<>> \/ lastRun.up.programs = <<>>)
        => files[lastRun.platform][lastRun.at] = NoFile

\* C8: when the handshake of Astro gives no token, the fetch task sends the
\* handshake request and no other, finds no channels, and changes no file.
C8_NoTokenNoFetch ==
    [][(TaskStep("astro") /\ lastRun'.up.token \in TokenFailures) =>
          /\ lastRun'.requests = {"oauth"}
          /\ lastRun'.outcome = "nodata"
          /\ files' = files]_vars

\* the handshake answered without a Location header, and there is no
\* astro file for today
C8_Witness ==
    /\ lastRun.platform = "astro"
    /\ lastRun.up.token = "no_location"
    /\ lastRun.requests = {"oauth"}
    /\ lastRun.at = day
    /\ files["astro"][day] = NoFile

\* C9: when the fetch task of a platform has failed today and written no
\* file, and the document of the day before is on disk, GET /epg/{platform}
\* answers with that document.
C9_PreviousDayStillServed ==
    (/\ resp.op = "platform"
     /\ lastRun.platform = resp.platforms[1]
     /\ lastRun.outcome = "nodata"
     /\ lastRun.at = day
     /\ day > 0
     /\ files[lastRun.platform][day] = NoFile
     /\ files[lastRun.platform][day - 1].kind = "xml")
        => (resp.status = 200 /\ resp.body = files[lastRun.platform][day - 1])

\* the upstream answered and the adapter found channels
UpstreamSucceeds(up) == ~up.raised /\ up.token \notin TokenFailures /\ up.channels # <<>>

\* C10: in an update the task of every enabled platform runs, whatever the
\* tasks before it did, and after the last one the update goes on; a task
\* whose upstream succeeds and whose save succeeds writes its document to
\* the path of the day of the save (where it stays unless midnight passed
\* before the cleanup built the name to keep).
C10_FailureIsolation ==
    [][\A c \in Cycles :
          (pc[c] = "fetch" /\ idx' # idx) =>
              /\ lastRun'.platform = GetEnabledPlatforms[idx]
              /\ IF idx < Len(GetEnabledPlatforms)
                 THEN idx' = idx + 1 /\ pc'[c] = "fetch"
                 ELSE pc'[c] = "gathered"
              /\ (UpstreamSucceeds(lastRun'.up) /\ lastRun'.disk = "ok") =>
                     /\ lastRun'.outcome = "saved"
                     /\ lastRun'.kept = lastRun'.at =>
                            files'[lastRun'.platform][lastRun'.at].kind = "xml"]_vars

\* the task of nowtv left no file and the task of astro, which ran after
\* it, stored its document
C10_Witness ==
    /\ \E c \in Cycles : pc[c] = "gathered"
    /\ lastRun.platform = "astro"
    /\ lastRun.outcome = "saved"
    /\ lastRun.at = day
    /\ files["astro"][day].kind = "xml"
    /\ files["nowtv"][day] = NoFile

C13_NoStaleFiles ==
    \A n \in EnabledNames \cup {"all"} :
        files[n][day].kind = "xml" => \A d \in Days \ {day} : files[n][d] = NoFile

\* C28: a fetch task that finds no complete document of today for its
\* platform fetches again; a fetch whose upstream succeeds leaves today's
\* document of the platform on disk; and GET /epg/{platform} answers with
\* the document that is on disk for today.
C28_RecoveryAfterFailure ==
    [][/\ \A p \in EnabledNames :
             /\ (TaskStep(p) /\ files[p][day].kind # "xml") => lastRun'.outcome # "hit"
             /\ (TaskStep(p) /\ lastRun'.outcome # "hit" /\ UpstreamSucceeds(lastRun'.up)) =>
                    files'[p][day'].kind = "xml"
       /\ (resp.op = "none" /\ resp'.op = "platform"
           /\ files[resp'.platforms[1]][day].kind = "xml") =>
              (resp'.status = 200 /\ resp'.body = files[resp'.platforms[1]][day])]_vars

\* C29: whatever is at a platform's path of today is a complete document,
\* and a GET that answers 200 for a platform answers with a complete
\* document.
C29_OnlyCompleteDocuments ==
    /\ \A p \in EnabledNames : files[p][day] # NoFile => files[p][day].kind = "xml"
    /\ (resp.op = "platform" /\ resp.status = 200) => resp.body.kind = "xml"

\* C30: the fetch task of a platform changes no file of another platform;
\* it removes a file only after its save succeeded, and never the file
\* named for the day of the removal; a task that hits the cache, gets no
\* data or fails to save leaves the files of its platform as they were.
C30_CleanupFrame ==
    [][\A p \in EnabledNames :
          TaskStep(p) =>
              /\ \A q \in FileNames \ {p} : files'[q] = files[q]
              /\ \A d \in Days :
                    (files[p][d] # NoFile /\ files'[p][d] = NoFile) =>
                        (lastRun'.outcome = "saved" /\ d # day')
              /\ lastRun'.outcome \in {"hit", "nodata", "save_failed"} =>
                    files'[p] = files[p]]_vars

-----------------------------------------------------------------------------
(* Properties of the merged cache (SpecAll) *)

\* an update has completed and none is in progress
UpdateCompleted ==
    /\ \A c \in Cycles : pc[c] \in {"idle", "done"}
    /\ \E c \in Cycles : pc[c] = "done"

\* C11: after a completed update, when today's merged cache holds a
\* document, the answer of GET /all is the answer of the merge engine over
\* today's documents of the enabled platforms in configuration order (so a
\* platform whose document a later update of the day wrote is included).
C11_AllServesTheMerge ==
    (resp.op = "all" /\ UpdateCompleted /\ files["all"][day].kind = "xml") =>
        LET merge == AggregateEpgFiles(GetEnabledPlatforms, files, day)
        IN  resp.status = merge.status /\ resp.body = merge.body

-----------------------------------------------------------------------------
(* Properties of the program times (SpecPrograms) *)

Parsed(adapter, fn) == call.adapter = adapter /\ call.fn = fn

\* C14 as stated: every program emitted for a MyTV Super channel ends
\* at the start of the program emitted after it, and the last one ends
\* 30 minutes after its start.
C14_EndIsNextEmittedStart ==
    Parsed("tvb", "_fetch_channel_programs") =>
        \A k \in DOMAIN call.out :
            call.out[k].end_time =
                IF k < Len(call.out) THEN call.out[k + 1].start_time
                ELSE call.out[k].start_time + 30

\* C14, amended: every program emitted for a MyTV Super channel ends at the
\* start_datetime of the upstream record that follows its own record when
\* that record has one, and 30 minutes after its own start when its record
\* is the last one or the record that follows has no start_datetime; a
\* record followed by one whose start_datetime does not parse is not emitted.
C14_EndIsNextRecordStart ==
    Parsed("tvb", "_fetch_channel_programs") =>
        LET total_epg == call.arg
        IN  \A k \in DOMAIN call.out :
                LET i == call.out[k].record
                IN  /\ total_epg[i].kind = "ok"
                    /\ call.out[k].start_time = total_epg[i].t
                    /\ IF i < Len(total_epg) /\ total_epg[i + 1].kind = "ok"
                       THEN call.out[k].end_time = total_epg[i + 1].t
                       ELSE /\ call.out[k].end_time = total_epg[i].t + 30
                            /\ i < Len(total_epg) => total_epg[i + 1].kind = "absent"

\* a list whose first record is followed by a record with a start and whose
\* second is followed by one without, all three emitted or passed over
C14_Witness ==
    /\ Parsed("tvb", "_fetch_channel_programs")
    /\ Len(call.arg) = 3
    /\ call.arg[1].kind = "ok" /\ call.arg[2].kind = "ok" /\ call.arg[3].kind = "absent"
    /\ Len(call.out) = 2
    /\ call.out[1].end_time = call.arg[2].t
    /\ call.out[2].end_time = call.arg[2].t + 30

\* C15: every program an adapter emits ends after it starts.
C15_EndAfterStart ==
    call.fn # "none" =>
        \A k \in DOMAIN call.out : call.out[k].end_time > call.out[k].start_time

\* C16: an RTHK block on date D whose start and end are clock times ends on
\* D+1 when the end is before the start on the clock and on D otherwise,
\* and lasts less than 24 hours.
C16_Rollover ==
    (Parsed("rthk", "_parse_program_block") /\ call.out # <<>> /\ call.arg.end.kind = "ok") =>
        LET block == call.arg
            program == call.out[1]
            startClock == block.start.hour * 60 + block.start.min
            endClock == block.end.hour * 60 + block.end.min
        IN  /\ program.start_time = block.date * 1440 + startClock
            /\ program.end_time =
                   (IF endClock < startClock THEN block.date + 1 ELSE block.date) * 1440 + endClock
            /\ program.end_time - program.start_time < 24 * 60

\* the block of 23:30 to 00:15 has been parsed and ends on the next date
C16_Witness ==
    /\ Parsed("rthk", "_parse_program_block")
    /\ call.arg.start = [kind |-> "ok", hour |-> 23, min |-> 30]
    /\ call.arg.end = [kind |-> "ok", hour |-> 0, min |-> 15]
    /\ call.out # <<>>
    /\ call.out[1].end_time = (call.arg.date + 1) * 1440 + 15


\* the positions of the upstream records that out was made from
EmittedRecords == {call.out[k].record : k \in DOMAIN call.out}

\* C23: of the records of one upstream response, those with a malformed
\* or missing timestamp are dropped and every other record is emitted, in
\* MyTV Super also the record before a malformed one.
C23_OnlyOffendingRecordDropped ==
    /\ Parsed("tvb", "_fetch_channel_programs") =>
           EmittedRecords = {i \in DOMAIN call.arg : call.arg[i].kind = "ok"}
    /\ Parsed("starhub", "_fetch_channel_programs") =>
           EmittedRecords = {i \in DOMAIN call.arg :
                                call.arg[i].start.kind = "ok" /\ call.arg[i].end.kind = "ok"}
    /\ Parsed("rthk.html", "_parse_epg_from_html") =>
           EmittedRecords = {i \in DOMAIN call.arg :
                                call.arg[i].start.kind = "ok" /\ call.arg[i].titled}

-----------------------------------------------------------------------------
(* Properties of the helper functions (SpecFunctions) *)

\* the local (UTC+8) instant, in seconds, that a UTC text denotes
LocalSeconds(iso) == ((iso.date * 24 + iso.hour + 8) * 60 + iso.minute) * 60 + iso.second

\* C17: the Astro window of today starts at h:00 when m < 30 and at h:30
\* otherwise and lasts the whole-hour ceiling of the time to the next local
\* midnight, from 1 to 24 hours; the window of a later day starts at its
\* local midnight and lasts 24 hours.
C17_QueryWindow ==
    Parsed("astro", "_get_date_params") =>
        LET now == call.arg.now
            date_delta == call.arg.date_delta
            start == LocalSeconds(call.out.iso_str)
            duration == call.out.duration
            midnight == (now.date + 1) * 24 * 3600
        IN  /\ date_delta = 0 =>
                /\ start = ((now.date * 24 + now.hour) * 60 + (IF now.minute < 30 THEN 0 ELSE 30)) * 60
                /\ duration \in 1..24
                /\ duration * 3600 >= midnight - start
                /\ (duration - 1) * 3600 < midnight - start
            /\ date_delta >= 1 =>
                /\ start = (now.date + date_delta) * 24 * 3600
                /\ duration = 24

\* at 15:34 the window of today starts at 15:30 local (07:30 UTC) and lasts 9
C17_Witness ==
    /\ Parsed("astro", "_get_date_params")
    /\ call.arg.date_delta = 0
    /\ call.arg.now.hour = 15 /\ call.arg.now.minute = 34
    /\ call.out.iso_str = [date |-> call.arg.now.date, hour |-> 7, minute |-> 30, second |-> 0]
    /\ call.out.duration = 9

\* C18: remove_brackets terminates (every pass of its loop removes at
\* least two characters), and what it returns has no opening bracket of
\* either kind before a closing bracket of either kind, so no bracket group
\* and no nested one, has no blank at either end, and is left unchanged by
\* remove_brackets.
C18_RemoveBrackets ==
    call.adapter = "remove_brackets" =>
        /\ Len(RunningText) + 2 * call.passes <= Len(call.arg)
        /\ call.fn = "remove_brackets" =>
              LET text == call.out
              IN  /\ \A i, j \in 1..Len(text) :
                         i < j => ~(text[i] \in {"(", "FF08"} /\ text[j] \in {")", "FF09"})
                  /\ text # <<>> => (text[1] # " " /\ text[Len(text)] # " ")
                  /\ RemoveBrackets(text) = text

\* a full-width group nested in an ASCII group has been removed in two passes
C18_Witness ==
    /\ call.adapter = "remove_brackets"
    /\ call.fn = "remove_brackets"
    /\ call.arg = <<"(", "FF08", "FF09", ")">>
    /\ call.passes = 2
    /\ call.out = <<>>

\* C19: in Astro, StarHub and HOY, a program with a truthy episode number n
\* gets the suffix " (U+7B2C)n(U+96C6)" when its title or its description
\* holds an ideograph and " Epn" when neither does; with no or a falsy
\* episode number the title is unchanged.
C19_EpisodeSuffix ==
    (call.adapter \in {"astro.title", "starhub.title", "hoy.title"} /\ call.fn # "none") =>
        LET title == call.arg.title
            description == call.arg.description
            episode == call.arg.episode_number
            cjk == \E c \in {"U4E2D"} :
                       (\E i \in DOMAIN title : title[i] = c)
                       \/ (\E i \in DOMAIN description : description[i] = c)
        IN  call.out =
                IF episode.present /\ episode.n # 0
                THEN IF cjk THEN title \o <<" ", "U7B2C", episode.n, "U96C6">>
                     ELSE title \o <<" ", "E", "p", episode.n>>
                ELSE title

\* An XML parser on the written values: a value is well formed when it
\* holds no character outside XML 1.0, and &amp; is read as an ampersand.
WellFormedText(text) == \A i \in 1..Len(text) : text[i] # "U0008"
RECURSIVE UnescapeText(_)
UnescapeText(text) ==
    IF text = <<>>
    THEN <<>>
    ELSE IF Head(text) = "&"
         THEN <<"&">> \o UnescapeText(SubSeq(text, 6, Len(text)))
         ELSE <<Head(text)>> \o UnescapeText(Tail(text))
WellFormedDocument(doc) ==
    /\ \A i \in DOMAIN doc.channels : WellFormedText(doc.channels[i].id)
    /\ \A i \in DOMAIN doc.programmes :
           WellFormedText(doc.programmes[i].channel) /\ WellFormedText(doc.programmes[i].title)
\* the instant, in seconds UTC, that a written time denotes
ParsedInstant(str) ==
    ((str.date * 24 + str.hour) * 60 + str.minute) * 60 + str.second
        - ((str.z \div 100) * 3600 + (str.z % 100) * 60)

\* C20: what generateEpg writes parses to the channel ids of the input
\* channel names and, for every input program, to the same channel, title,
\* start instant and end instant, with start and stop written in UTC+8.
C20_RoundTrip ==
    Parsed("generateEpg", "generateEpg") =>
        LET doc == call.out
            channels == call.arg.channels
            programs == call.arg.programs
        IN  /\ WellFormedDocument(doc)
            /\ {UnescapeText(doc.channels[i].id) : i \in DOMAIN doc.channels}
                   = {channels[i].channelName : i \in DOMAIN channels}
            /\ Len(doc.programmes) = Len(programs)
            /\ \A i \in DOMAIN programs :
                   /\ UnescapeText(doc.programmes[i].channel) = programs[i].channelName
                   /\ UnescapeText(doc.programmes[i].title) = programs[i].programName
                   /\ doc.programmes[i].start.z = 800 /\ doc.programmes[i].stop.z = 800
                   /\ ParsedInstant(doc.programmes[i].start) = programs[i].start.utc
                   /\ programs[i].start.microsecond = 0
                   /\ ParsedInstant(doc.programmes[i].stop) = programs[i].end.utc
                   /\ programs[i].end.microsecond = 0

\* C21 as stated: a call of HTTPClient.get makes at most HTTP_MAX_RETRIES
\* attempts.
C21_AtMostMaxRetries ==
    call.adapter = "HTTPClient.get" => call.passes <= call.arg.HTTP_MAX_RETRIES

\* C21, amended: a call of HTTPClient.get makes at most HTTP_MAX_RETRIES
\* attempts, and one attempt when HTTP_MAX_RETRIES is below 1; it returns
\* the response of the first attempt that succeeds, and when every attempt
\* fails with a RequestException or an HTTPError it raises the error of the
\* last attempt instead of returning a response.
C21_BoundedRetry ==
    call.adapter = "HTTPClient.get" =>
        LET retries == call.arg.HTTP_MAX_RETRIES
            limit == IF retries < 1 THEN 1 ELSE retries
            upstream == call.arg.upstream
            transient == {"RequestException", "HTTPError"}
        IN  /\ call.passes <= limit
            /\ call.fn = "retry" => call.passes < limit
            /\ call.fn = "get" =>
                  /\ \A k \in 1..(call.passes - 1) : upstream[k] \in transient
                  /\ upstream[call.passes] = "ok" =>
                         call.out = [raised |-> "none", response |-> call.passes]
                  /\ (\A k \in 1..limit : upstream[k] \in transient) =>
                         /\ call.passes = limit
                         /\ call.out.raised = upstream[limit]

\* with HTTP_MAX_RETRIES = 3 the third failure is raised although a fourth
\* attempt would have succeeded
C21_Witness ==
    /\ call.adapter = "HTTPClient.get"
    /\ call.fn = "get"
    /\ call.arg.HTTP_MAX_RETRIES = 3
    /\ call.passes = 3
    /\ call.out.raised = "HTTPError"
    /\ call.arg.upstream[4] = "ok"

\* the programs of out that belong to channel c, in the order of out
OfChannel(out, c) == SelectSeq(out, LAMBDA program : program.channel_id = c)
\* out lists its programs by channel in list order and by request in
\* request order
InFetchOrder(out) ==
    \A i, j \in DOMAIN out :
        i < j => \/ out[i].channel_id < out[j].channel_id
                 \/ (out[i].channel_id = out[j].channel_id /\ out[i].title < out[j].title)

\* C22 as stated: a channel with a failed EPG request is skipped, and
\* the programs of every other channel are returned in channel-list order.
C22_FailedChannelSkipped ==
    Parsed("fetch_programs", "fetch_programs") =>
        LET channels == call.arg.channels
            requests == IF call.arg.platform = "hami" THEN 0..6 ELSE {0}
        IN  /\ InFetchOrder(call.out)
            /\ \A c \in DOMAIN channels :
                   {OfChannel(call.out, c)[k].title : k \in DOMAIN OfChannel(call.out, c)}
                       = IF channels[c] # {} THEN {} ELSE requests

\* C22, amended: in MyTV Super, RTHK, HOY and StarHub a channel whose EPG
\* request fails is skipped; in Hami the failed day of the channel is
\* skipped and its other days are kept; in all five the programs of every
\* request that succeeded are returned, once each, in channel-list order,
\* and the run is not aborted.
C22_FailedRequestSkipped ==
    Parsed("fetch_programs", "fetch_programs") =>
        LET channels == call.arg.channels
            requests == IF call.arg.platform = "hami" THEN 0..6 ELSE {0}
        IN  /\ InFetchOrder(call.out)
            /\ \A k \in DOMAIN call.out : call.out[k].channel_id \in DOMAIN channels
            /\ \A c \in DOMAIN channels :
                   {OfChannel(call.out, c)[k].title : k \in DOMAIN OfChannel(call.out, c)}
                       = requests \ channels[c]

\* the request of the first of two RTHK channels failed and the program of
\* the second is returned
C22_Witness ==
    /\ Parsed("fetch_programs", "fetch_programs")
    /\ call.arg.platform = "rthk"
    /\ call.arg.channels = <<{0}, {}>>
    /\ call.out = <<[channel_id |-> 2, title |-> 0]>>


\* C26: Astro's fetch_programs makes one grid query for each of the days
\* 0..6 in turn; the schedule of every day whose query did not fail is
\* kept; the programs come channel by channel, and within a channel in day
\* order.
C26_AstroSevenDays ==
    Parsed("astro.fetch_programs", "fetch_programs") =>
        LET answers == call.arg
            programs == call.out.programs
        IN  /\ call.out.queries = [i \in 1..7 |-> i - 1]
            /\ {<<programs[k].id, programs[k].day>> : k \in DOMAIN programs}
                   = {<<c, d>> \in {1, 2} \X (0..6) :
                         /\ ~answers[d].raised
                         /\ \E i \in DOMAIN answers[d].channels : answers[d].channels[i].id = c}
            /\ \A i, j \in DOMAIN programs :
                   (i < j /\ programs[i].id = programs[j].id) =>
                       /\ programs[i].day < programs[j].day
                       /\ \A k \in i..j : programs[k].id = programs[i].id

\* the query of day 1 failed and the six other days of channel 1 are there
C26_Witness ==
    /\ Parsed("astro.fetch_programs", "fetch_programs")
    /\ call.arg[1].raised
    /\ \A d \in {0, 2, 3, 4, 5, 6} : ~call.arg[d].raised /\ Len(call.arg[d].channels) = 1
    /\ call.out.programs = [i \in 1..6 |-> [id |-> 1, day |-> IF i = 1 THEN 0 ELSE i]]


\* C27: generateEpg writes one <channel> for each input channel in input
\* order, then one <programme> for each input program in input order, a
\* program given twice being written twice, and a <desc> exactly for the
\* programs whose description is not empty.
C27_OneElementPerInput ==
    Parsed("generateEpg", "generateEpg") =>
        LET doc == call.out
            channels == call.arg.channels
            programs == call.arg.programs
        IN  /\ Len(doc.tags) = Len(channels) + Len(programs)
            /\ \A i \in DOMAIN doc.tags :
                   doc.tags[i] = IF i <= Len(channels) THEN "channel" ELSE "programme"
            /\ Len(doc.channels) = Len(channels)
            /\ \A i \in DOMAIN channels :
                   UnescapeText(doc.channels[i].id) = channels[i].channelName
            /\ Len(doc.programmes) = Len(programs)
            /\ \A i \in DOMAIN programs :
                   /\ UnescapeText(doc.programmes[i].channel) = programs[i].channelName
                   /\ UnescapeText(doc.programmes[i].title) = programs[i].programName
                   /\ doc.programmes[i].desc.present <=> programs[i].description # <<>>

\* one program with a description given twice is written twice
C27_Witness ==
    /\ Parsed("generateEpg", "generateEpg")
    /\ Len(call.arg.programs) = 2
    /\ call.arg.programs[1] = call.arg.programs[2]
    /\ call.arg.programs[1].description = <<"a">>
    /\ Len(call.out.programmes) = 2
    /\ call.out.programmes[1] = call.out.programmes[2]
    /\ call.out.programmes[2].desc.present

-----------------------------------------------------------------------------
(* Properties of the event loop (SpecLoop) *)

\* the updates with a fetch task of the platform between its cache check
\* and its return
Fetching(platform) == {c \in Cycles : call.task[c][platform] = "fetching"}

\* C24: at no time are two fetch tasks of one platform between their cache
\* check and their file write (so no two writes of its file overlap), also
\* while the update queued at startup has not finished when the scheduled
\* one runs.
C24_SingleWriter ==
    \A platform \in PlatformNames : Cardinality(Fetching(platform)) <= 1

\* a task of the scheduled update is fetching while the update of startup
\* still waits to resume after its gather
C24_Witness ==
    /\ "startup" \notin call.finished
    /\ call.task["startup"]["tvb"] = "done"
    /\ call.task["scheduled"]["tvb"] = "fetching"

\* C25: while a fetch task waits on an upstream request the loop is free
\* to run the other callbacks: the other tasks and the request handlers.
C25_FetchDoesNotBlock ==
    \A platform \in PlatformNames :
        Fetching(platform) # {} => call.running = [kind |-> "none", cycle |-> "none", platform |-> "none"]

=============================================================================
